---- MODULE Spec2Model ----
(***************************************************************************)
(* Model of the SiK radio firmware's serial transport                      *)
(* (Firmware/radio/serial.c): the two ring buffers, the UART interrupt     *)
(* handler with its in-band '!' escape commands, the mainline read/write   *)
(* operations and the RTS/CTS flow control; and of its bit interleaver     *)
(* (Firmware/radio/interleave.c).                                          *)
(*                                                                         *)
(* The code is modelled as functions on a record `s' holding every global, *)
(* special-function register and mainline local; an action applies one of  *)
(* these functions to the current state.  The interrupt handler is one     *)
(* atomic action (it is not preemptible); a mainline operation is split    *)
(* at the points where the serial interrupt can be taken, i.e. outside its *)
(* ES0_SAVE_DISABLE / __critical sections.                                 *)
(***************************************************************************)
EXTENDS Integers, Sequences, FiniteSets, TLC

VARIABLES
  rx_buf, tx_buf,                 \* the two byte arrays
  rx_insert, rx_remove,           \* FIFO indices of rx_buf
  tx_insert, tx_remove,           \* FIFO indices of tx_buf
  rts_count,                      \* credit left after RTS was seen low
  tx_idle,                        \* transmitter needs a kick
  last_was_bang, tx_buffered_data,
  uboot_counter, last_byte,
  uboot_silence_mode, uboot_silence_counter,
  errors,                         \* [serial_rx_overflow, serial_tx_overflow]
  eeprom_address, heartbeat_requested, eeprom_param_request,
  ES0, RI0, TI0, SBUF0,           \* UART0 registers (SBUF0: receive side)
  tx_busy,                        \* UART0 is shifting a byte out
  SERIAL_CTS, SERIAL_RTS, LED_BOOTLOADER,
  feature_rtscts, at_mode_active, at_cmd_ready,
  halted,                         \* the handler reset the device
  pc, loc,                        \* mainline: position and locals
  wire_in,                        \* bytes the host has still to send
  hist,                           \* history: what was emitted and dispatched
  il                              \* the interleaver: buffer and call in hand

vars == << rx_buf, tx_buf, rx_insert, rx_remove, tx_insert, tx_remove,
           rts_count, tx_idle, last_was_bang, tx_buffered_data,
           uboot_counter, last_byte, uboot_silence_mode,
           uboot_silence_counter, errors, eeprom_address,
           heartbeat_requested, eeprom_param_request,
           ES0, RI0, TI0, SBUF0, tx_busy, SERIAL_CTS, SERIAL_RTS,
           LED_BOOTLOADER, feature_rtscts, at_mode_active, at_cmd_ready,
           halted, pc, loc, wire_in, hist, il >>

serial_vars ==
  << rx_buf, tx_buf, rx_insert, rx_remove, tx_insert, tx_remove,
     rts_count, tx_idle, last_was_bang, tx_buffered_data,
     uboot_counter, last_byte, uboot_silence_mode,
     uboot_silence_counter, errors, eeprom_address,
     heartbeat_requested, eeprom_param_request,
     ES0, RI0, TI0, SBUF0, tx_busy, SERIAL_CTS, SERIAL_RTS,
     LED_BOOTLOADER, feature_rtscts, at_mode_active, at_cmd_ready,
     halted, pc, loc, wire_in, hist >>

(***************************************************************************)
(* Program constants                                                       *)
(***************************************************************************)
RX_BUFF_MAX == 256
TX_BUFF_MAX == 512
SERIAL_CTS_THRESHOLD_LOW == 17
SERIAL_CTS_THRESHOLD_HIGH == 34
RTS_CREDIT == 8
UBOOT_BANNER_RUN == 80
UBOOT_SILENCE_TICKS == 2000
U16_MAX == 65535

\* character codes used by the handler
CH == [ bang |-> 33, dot |-> 46, nul |-> 0, cr |-> 13, lf |-> 10,
        zero |-> 48, one |-> 49, five |-> 53, nine |-> 57,
        A |-> 65, B |-> 66, C |-> 67, D |-> 68, E |-> 69, F |-> 70,
        H |-> 72, I |-> 73, L |-> 76, M |-> 77, P |-> 80, R |-> 82,
        T |-> 84, V |-> 86, W |-> 87, Y |-> 89, Z |-> 90,
        a |-> 97, c |-> 99, d |-> 100, f |-> 102, g |-> 103, h |-> 104,
        j |-> 106, o |-> 111, p |-> 112, s |-> 115, u |-> 117, w |-> 119,
        x |-> 120, y |-> 121, z |-> 122,
        banner1 |-> 134, banner2 |-> 152 ]

Byte == 0 .. 255

(***************************************************************************)
(* FIFO status macros (serial.c:80-87), parameterised by the two indices   *)
(* and sizeof(buffer).                                                     *)
(***************************************************************************)
BUF_NEXT_INSERT(ins, size) == IF ins + 1 = size THEN 0 ELSE ins + 1
BUF_NEXT_REMOVE(rem, size) == IF rem + 1 = size THEN 0 ELSE rem + 1
BUF_FULL(ins, rem, size) == BUF_NEXT_INSERT(ins, size) = rem

\* mutant: the full test without the wrap of the insert index
BUF_NOT_FULL_nowrap(ins, rem, size) == ins + 1 # rem

BUF_NOT_FULL(ins, rem, size) == BUF_NEXT_INSERT(ins, size) # rem
BUF_EMPTY(ins, rem) == ins = rem
BUF_NOT_EMPTY(ins, rem) == ins # rem
BUF_USED(ins, rem, size) ==
  IF ins >= rem THEN ins - rem ELSE (size - rem) + ins
BUF_FREE(ins, rem, size) ==
  IF ins >= rem THEN size + rem - ins ELSE rem - ins

\* saturating increment of a 16-bit error counter
SatInc(n) == IF n # U16_MAX THEN n + 1 ELSE n

hex_decode(c) ==
  IF c >= CH.zero /\ c <= CH.nine THEN c - CH.zero
  ELSE IF c >= CH.A /\ c <= CH.F THEN (c - CH.A) + 10
  ELSE IF c >= CH.a /\ c <= CH.f THEN (c - CH.a) + 10
  ELSE 0

(***************************************************************************)
(* The state as a record, and its write-back.  `ret' and `c' are the       *)
(* return register and the handler's register variable c; EA is the global *)
(* interrupt enable, cleared only inside a __critical section; `unmasked'  *)
(* collects the indices owned by the interrupt handler that the step has   *)
(* read with the serial interrupt enabled.                                 *)
(***************************************************************************)
Cur ==
  [ rx_buf |-> rx_buf, tx_buf |-> tx_buf,
    rx_insert |-> rx_insert, rx_remove |-> rx_remove,
    tx_insert |-> tx_insert, tx_remove |-> tx_remove,
    rts_count |-> rts_count, tx_idle |-> tx_idle,
    last_was_bang |-> last_was_bang, tx_buffered_data |-> tx_buffered_data,
    uboot_counter |-> uboot_counter, last_byte |-> last_byte,
    uboot_silence_mode |-> uboot_silence_mode,
    uboot_silence_counter |-> uboot_silence_counter,
    errors |-> errors, eeprom_address |-> eeprom_address,
    heartbeat_requested |-> heartbeat_requested,
    eeprom_param_request |-> eeprom_param_request,
    ES0 |-> ES0, RI0 |-> RI0, TI0 |-> TI0, SBUF0 |-> SBUF0,
    tx_busy |-> tx_busy, SERIAL_CTS |-> SERIAL_CTS,
    SERIAL_RTS |-> SERIAL_RTS, LED_BOOTLOADER |-> LED_BOOTLOADER,
    feature_rtscts |-> feature_rtscts, at_mode_active |-> at_mode_active,
    at_cmd_ready |-> at_cmd_ready, halted |-> halted,
    pc |-> pc, loc |-> loc, wire_in |-> wire_in, hist |-> hist,
    ret |-> 0, c |-> 0, EA |-> TRUE, unmasked |-> { } ]

Apply(s) ==
  /\ rx_buf' = s.rx_buf /\ tx_buf' = s.tx_buf
  /\ rx_insert' = s.rx_insert /\ rx_remove' = s.rx_remove
  /\ tx_insert' = s.tx_insert /\ tx_remove' = s.tx_remove
  /\ rts_count' = s.rts_count /\ tx_idle' = s.tx_idle
  /\ last_was_bang' = s.last_was_bang
  /\ tx_buffered_data' = s.tx_buffered_data
  /\ uboot_counter' = s.uboot_counter /\ last_byte' = s.last_byte
  /\ uboot_silence_mode' = s.uboot_silence_mode
  /\ uboot_silence_counter' = s.uboot_silence_counter
  /\ errors' = s.errors /\ eeprom_address' = s.eeprom_address
  /\ heartbeat_requested' = s.heartbeat_requested
  /\ eeprom_param_request' = s.eeprom_param_request
  /\ ES0' = s.ES0 /\ RI0' = s.RI0 /\ TI0' = s.TI0 /\ SBUF0' = s.SBUF0
  /\ tx_busy' = s.tx_busy /\ SERIAL_CTS' = s.SERIAL_CTS
  /\ SERIAL_RTS' = s.SERIAL_RTS /\ LED_BOOTLOADER' = s.LED_BOOTLOADER
  /\ feature_rtscts' = s.feature_rtscts
  /\ at_mode_active' = s.at_mode_active /\ at_cmd_ready' = s.at_cmd_ready
  /\ halted' = s.halted
  /\ pc' = s.pc /\ loc' = s.loc /\ wire_in' = s.wire_in /\ hist' = s.hist
  /\ UNCHANGED il

(***************************************************************************)
(* History bookkeeping (not program state): what reached the UART, which   *)
(* external routines the handler called, which bytes were accepted into    *)
(* the TX FIFO, and which context ran last.                                *)
(***************************************************************************)
Call(s, name) == [s EXCEPT !.hist.calls = Append(@, name)]

(***************************************************************************)
(* ES0_SAVE_DISABLE / ES0_RESTORE (serial.c:110-111)                       *)
(***************************************************************************)
ES0_DISABLE(s) == [s EXCEPT !.ES0 = FALSE]
ES0_RESTORE(s, ES_saved) == [s EXCEPT !.ES0 = ES_saved]

\* __critical { ... }: EA is saved and cleared, and restored at the end
CRITICAL(s) == [s EXCEPT !.EA = FALSE]
END_CRITICAL(s, EA_saved) == [s EXCEPT !.EA = EA_saved]

\* history: mainline reads rx_insert or tx_remove, which the serial
\* interrupt writes; noted when the interrupt could be taken at that point
ReadShared(s, index) ==
  IF s.ES0 /\ s.EA THEN [s EXCEPT !.unmasked = @ \cup { index }] ELSE s

\* serial.c:642-645 and 771-774: serial_write_space and
\* serial_read_available read the index between ES0_SAVE_DISABLE and
\* ES0_RESTORE
MaskedRead(s, index) ==
  ES0_RESTORE(ReadShared(ES0_DISABLE(s), index), s.ES0)

(***************************************************************************)
(* serial_restart (serial.c:649-661)                                       *)
(***************************************************************************)
\* mutant: the transmitter is marked busy but no interrupt is raised
serial_restart_noint(s) ==
  IF s.feature_rtscts /\ s.SERIAL_RTS /\ ~s.at_mode_active
  THEN s
  ELSE [s EXCEPT !.tx_idle = FALSE]

serial_restart(s) ==
  IF s.feature_rtscts /\ s.SERIAL_RTS /\ ~s.at_mode_active
  THEN s        \* the line is blocked by hardware flow control
  ELSE [s EXCEPT !.tx_idle = FALSE, !.TI0 = TRUE]

RestartIfIdle(s) == IF s.tx_idle THEN serial_restart(s) ELSE s

(***************************************************************************)
(* BUF_INSERT (serial.c:96-97)                                             *)
(***************************************************************************)
BUF_INSERT_tx(s, c) ==
  [s EXCEPT !.tx_buf[s.tx_insert] = c,
            !.tx_insert = BUF_NEXT_INSERT(s.tx_insert, TX_BUFF_MAX),
            !.hist.accepted = Append(@, c)]

\* mutant: the index is advanced before the byte is stored
BUF_INSERT_rx_preinc(s, c) ==
  [s EXCEPT !.rx_buf[BUF_NEXT_INSERT(s.rx_insert, RX_BUFF_MAX)] = c,
            !.rx_insert = BUF_NEXT_INSERT(s.rx_insert, RX_BUFF_MAX)]

BUF_INSERT_rx(s, c) ==
  [s EXCEPT !.rx_buf[s.rx_insert] = c,
            !.rx_insert = BUF_NEXT_INSERT(s.rx_insert, RX_BUFF_MAX)]

(***************************************************************************)
(* _serial_write (serial.c:566-585)                                        *)
(***************************************************************************)
\* serial.c:571-582, between ES0_SAVE_DISABLE and ES0_RESTORE
SerialWriteMasked(s, c) ==
  IF BUF_NOT_FULL(s.tx_insert, s.tx_remove, TX_BUFF_MAX)
  THEN RestartIfIdle(BUF_INSERT_tx(ReadShared(s, "tx_remove"), c))
  ELSE [ReadShared(s, "tx_remove")
          EXCEPT !.errors.serial_tx_overflow = SatInc(@)]

_serial_write(s, c) ==
  ES0_RESTORE(SerialWriteMasked(ES0_DISABLE(s), c), s.ES0)

(***************************************************************************)
(* putchar_r (serial.c:794-799)                                            *)
(***************************************************************************)
putchar_r(s, c) ==
  _serial_write(IF c = CH.lf THEN _serial_write(s, CH.cr) ELSE s, c)

(***************************************************************************)
(* printfl is outside this file; each call is modelled as the characters   *)
(* of an abbreviated rendering handed one by one to putchar_r.             *)
(***************************************************************************)
RECURSIVE printfl(_, _)
printfl(s, text) ==
  IF text = << >> THEN s
  ELSE printfl(putchar_r(s, Head(text)), Tail(text))

\* abbreviated renderings of the handler's printfl format strings:
\* the first literal character and the line ending of each format
FMT == [ txpower  |-> << CH.T, CH.cr, CH.lf >>,     \* "TXPOWER=%d\r\n"
         epraddr  |-> << CH.E, CH.cr, CH.lf >>,     \* "EPRADDR=$%x\r\n"
         crlf     |-> << CH.cr, CH.lf >>,           \* "\r\n"
         werror   |-> << CH.W, CH.cr, CH.lf >>,     \* "WRITE ERROR\r\n"
         written  |-> << CH.E, CH.cr, CH.lf, CH.R >>,
                                     \* "EEPROM WRITTEN @ $%x\r\nREAD BACK"
         writtenb |-> << CH.E, CH.cr, CH.lf >>,
                                     \* "EEPROM WRITTEN %x -> $%x\r\n"
         hexbyte  |-> << 32 >>,                     \* " %x"
         epr      |-> << CH.E, 32 >>,               \* "EPR:%x : "
         rerror   |-> << CH.R >>,                   \* "READ ERROR #%d"
         reinited |-> << CH.R, CH.cr, CH.lf >>,     \* "REINITed\r\n"
         reset    |-> << CH.R, CH.lf, CH.cr >> ]    \* "Resetting...\n\r"

(***************************************************************************)
(* serial_read (serial.c:663-685)                                          *)
(***************************************************************************)
\* serial.c:670-674
SerialReadRemove(s) ==
  IF BUF_NOT_EMPTY(s.rx_insert, s.rx_remove)
  THEN [ReadShared(s, "rx_insert")
          EXCEPT !.ret = s.rx_buf[s.rx_remove],
                 !.rx_remove = BUF_NEXT_REMOVE(@, RX_BUFF_MAX)]
  ELSE [ReadShared(s, "rx_insert") EXCEPT !.ret = CH.nul]

\* serial.c:676-680 and 758-764
CtsRelease(s) ==
  IF BUF_FREE(s.rx_insert, s.rx_remove, RX_BUFF_MAX)
       > SERIAL_CTS_THRESHOLD_HIGH
  THEN [ReadShared(s, "rx_insert") EXCEPT !.SERIAL_CTS = FALSE]
  ELSE ReadShared(s, "rx_insert")

serial_read(s) ==
  ES0_RESTORE(CtsRelease(SerialReadRemove(ES0_DISABLE(s))), s.ES0)

(***************************************************************************)
(* serial_write_space / serial_read_available (serial.c:639-647, 768-776)  *)
(***************************************************************************)
serial_write_space(s) == BUF_FREE(s.tx_insert, s.tx_remove, TX_BUFF_MAX)

serial_read_available(s) == BUF_USED(s.rx_insert, s.rx_remove, RX_BUFF_MAX)

(***************************************************************************)
(* serial_interrupt, receive side (serial.c:138-477)                       *)
(***************************************************************************)
S16(x) == ((x + 32768) % 65536) - 32768

\* serial.c:147-149
BannerRun(s, c) ==
  IF \/ (s.last_byte = CH.banner1 /\ c = CH.banner2)
     \/ (s.last_byte = CH.banner2 /\ c = CH.banner1)
  THEN (s.uboot_counter + 1) % 256
  ELSE 0

\* serial.c:143-173: the uboot banner detector
UbootDetect(s, c) ==
  IF BannerRun(s, c) >= UBOOT_BANNER_RUN
  THEN [s EXCEPT !.LED_BOOTLOADER = TRUE,
                 !.uboot_silence_counter = UBOOT_SILENCE_TICKS,
                 !.uboot_counter = 0,
                 !.uboot_silence_mode = TRUE,
                 !.last_byte = c]
  ELSE [s EXCEPT !.uboot_counter = BannerRun(s, c), !.last_byte = c]

\* mutant: the escape character leaves silence mode running
SilenceExpire_keep(s) == s

\* serial.c:193-197
SilenceExpire(s) ==
  IF s.uboot_silence_mode
  THEN [s EXCEPT !.uboot_silence_mode = FALSE,
                 !.uboot_silence_counter = 0,
                 !.LED_BOOTLOADER = FALSE]
  ELSE s

\* mutant: the second '!' of a pair leaves the escape pending
BangToggle_sticky(s) ==
  IF s.last_was_bang
  THEN [s EXCEPT !.tx_buffered_data = TRUE, !.hist.flushes = @ + 1]
  ELSE [s EXCEPT !.last_was_bang = TRUE]

\* serial.c:199-204 (history: the assignments of tx_buffered_data = 1)
BangToggle(s) ==
  IF s.last_was_bang
  THEN [s EXCEPT !.tx_buffered_data = TRUE, !.last_was_bang = FALSE,
                 !.hist.flushes = @ + 1]
  ELSE [s EXCEPT !.last_was_bang = TRUE]

\* serial.c:188-204: the escape character itself
CmdBang(s) == BangToggle(SilenceExpire(s))

\* serial.c:221-222: c = 1 unless the next queued byte is ch
BootCompare(r, ch) == IF r.ret # ch THEN [r EXCEPT !.c = 1] ELSE r

BootExpect(s, ch) ==
  IF BUF_EMPTY(s.rx_insert, s.rx_remove)
  THEN [s EXCEPT !.c = 1]
  ELSE BootCompare(serial_read(s), ch)

\* mutant: bytes queued behind "up" are not looked for
BootNothingLeft_any(s) == s

\* serial.c:223
BootNothingLeft(s) ==
  IF BUF_NOT_EMPTY(s.rx_insert, s.rx_remove) THEN [s EXCEPT !.c = 1] ELSE s

\* serial.c:227-240
BootErase(s) ==
  IF s.c = CH.B
  THEN [s EXCEPT !.hist.calls = @ \o << "flash_erase_signature", "reset" >>,
                 !.halted = TRUE]
  ELSE s

\* serial.c:217-240: "!B", drop to the boot loader if !Cup!B was typed
CmdBoot(s) ==
  BootErase([BootNothingLeft(
               BootExpect(BootExpect([s EXCEPT !.c = CH.B], CH.u), CH.p))
              EXCEPT !.last_was_bang = FALSE])

\* serial.c:244: BUF_REMOVE(rx, c)
ClearOne(s) ==
  [s EXCEPT !.c = s.rx_buf[s.rx_remove],
            !.rx_remove = BUF_NEXT_REMOVE(@, RX_BUFF_MAX)]

\* n passes of the loop body, the second half after the first
RECURSIVE ClearLoop(_, _)
ClearLoop(s, n) ==
  IF n = 0 THEN s
  ELSE IF n = 1 THEN ClearOne(s)
  ELSE CHOOSE r \in { ClearLoop(t, n - n \div 2) :
                        t \in { ClearLoop(s, n \div 2) } } : TRUE

\* serial.c:241-246: "!C", remove bytes until the RX FIFO is empty (the
\* handler is not interrupted: the loop makes one pass per queued byte)
CmdClear(s) ==
  ClearLoop(s, BUF_USED(s.rx_insert, s.rx_remove, RX_BUFF_MAX))

\* serial.c:285-286
HexShiftIn(r) ==
  [r EXCEPT !.eeprom_address = S16(S16(@ * 16) + hex_decode(r.ret))]

\* serial.c:284-287
RECURSIVE ReadHexAddress(_)
ReadHexAddress(s) ==
  IF BUF_NOT_EMPTY(s.rx_insert, s.rx_remove)
  THEN ReadHexAddress(HexShiftIn(serial_read(s)))
  ELSE s

\* serial.c:288-292
SilenceOffIfZero(s) ==
  IF s.eeprom_address = 0 THEN [s EXCEPT !.uboot_silence_mode = FALSE] ELSE s

\* serial.c:293-294
WrapNegative(a) == IF a < 0 THEN a + 2048 ELSE a
WrapAbove(a) == IF a >= 2048 THEN a - 2048 ELSE a
WrapAddress(s) == [s EXCEPT !.eeprom_address = WrapAbove(WrapNegative(@))]

\* serial.c:280-296: "!g", set the EEPROM pointer from the hex digits queued
CmdEepromAddress(s) ==
  printfl(WrapAddress(SilenceOffIfZero(
            ReadHexAddress([s EXCEPT !.eeprom_address = 0]))),
          FMT.epraddr)

\* n times printfl(" %x", eeprom_data[i]); t is the state after one of them
RECURSIVE PrintHexBytes(_, _)
PrintHexBytes(s, n) ==
  IF n = 0 THEN s
  ELSE CHOOSE r \in { PrintHexBytes(t, n - 1) :
                        t \in { printfl(s, FMT.hexbyte) } } : TRUE

\* serial.c:312-316: copy up to 16 queued bytes into eeprom_data; t is the
\* state after one of them
RECURSIVE ReadPageData(_, _)
ReadPageData(s, n) ==
  IF n = 0 THEN s
  ELSE CHOOSE r \in
         { ReadPageData(t, n - 1) :
             t \in { IF BUF_NOT_EMPTY(s.rx_insert, s.rx_remove)
                     THEN serial_read(s) ELSE s } } : TRUE

\* serial.c:317-327
WritePageReport(s, ee) ==
  IF ee.write_err
  THEN printfl(s, FMT.werror)
  ELSE printfl(PrintHexBytes(
                 Call(printfl(s, FMT.written), "eeprom_read_page"), 16),
               FMT.crlf)

\* serial.c:330-332 and 351-353
EepromOff(s) ==
  [s EXCEPT !.hist.calls = @ \o << "eeprom_poweroff", "eeprom_writeprotect" >>]

\* serial.c:300-333: "!w", write a page of queued data to the EEPROM; t is
\* the state after eeprom_write_page
CmdEepromWritePage(s, ee) ==
  CHOOSE r \in
    { EepromOff(WritePageReport(t, ee)) :
        t \in { Call(ReadPageData(printfl(Call(s, "eeprom_poweron"),
                                          FMT.crlf), 16),
                     "eeprom_write_page") } } : TRUE

\* serial.c:342-348
WriteByteReport(s, ee) ==
  IF ee.write_err
  THEN printfl(s, FMT.werror)
  ELSE [printfl(s, FMT.writtenb) EXCEPT !.eeprom_address = S16(@ + 1)]

\* serial.c:334-354: "!j", write one queued byte to the EEPROM
CmdEepromWriteByte(s, ee) ==
  EepromOff(WriteByteReport(
    Call(serial_read(printfl(Call(s, "eeprom_poweron"), FMT.crlf)),
         "eeprom_write_byte"), ee))

\* serial.c:252-355: the switch of the debug functions
DebugSwitch(s, c, ee) ==
  CASE c >= CH.zero /\ c <= CH.nine -> Call(s, "pins_user_set")
    [] c = CH.p -> Call(s, "eeprom_poweron")
    [] c = CH.o -> Call(s, "eeprom_poweroff")
    [] c = CH.s -> Call(s, "pins_user_set")
    [] c = CH.x -> Call(s, "i2c_clock_low")
    [] c = CH.d -> Call(s, "pins_user_set")
    [] c = CH.c -> Call(s, "i2c_data_low")
    [] c = CH.y -> Call(s, "eeprom_writeenable")
    [] c = CH.g -> CmdEepromAddress(s)
    [] c = CH.h -> [s EXCEPT !.heartbeat_requested = TRUE]
    [] c = CH.w -> CmdEepromWritePage(s, ee)
    [] c = CH.j -> CmdEepromWriteByte(s, ee)
    [] OTHER -> s

\* serial.c:247-356: "!" followed by a lower-case letter or a digit
\* (the I2C / user pin debug functions, compiled when PIN_MAX > 0)
CmdDebug(s, c, ee) ==
  DebugSwitch([s EXCEPT !.last_was_bang = FALSE], c, ee)

\* eeprom_address += 16, wrapping at 0x800 (serial.c:376-377, 403-404)
NextPage(a) == IF S16(a + 16) >= 2048 THEN 0 ELSE S16(a + 16)

\* serial.c:370-375
PageText(s, ee) ==
  printfl(IF ee.read_err THEN printfl(s, FMT.rerror)
          ELSE PrintHexBytes(s, 16), FMT.crlf)

\* serial.c:366-381: the dump loop, n pages to go; t is the state after
\* one page
RECURSIVE DumpPagesText(_, _, _)
DumpPagesText(s, n, ee) ==
  IF n = 0 THEN s
  ELSE CHOOSE r \in
         { DumpPagesText(t, n - 1, ee) :
             t \in { [PageText(Call(printfl(s, FMT.epr),
                                    "eeprom_read_page"), ee)
                        EXCEPT !.eeprom_address = NextPage(@)] } } : TRUE

\* serial.c:360-386: "!E", dump 8 EEPROM pages as text
CmdDumpText(s, ee) ==
  [Call(DumpPagesText(printfl(Call(s, "eeprom_poweron"), FMT.crlf), 8, ee),
        "eeprom_poweroff")
     EXCEPT !.last_was_bang = FALSE]

\* 16 times _serial_write(eeprom_data[i]); the page content is external
RECURSIVE WritePageRaw(_, _)
WritePageRaw(s, n) ==
  IF n = 0 THEN s
  ELSE CHOOSE r \in { WritePageRaw(t, n - 1) :
                        t \in { _serial_write(s, 238) } } : TRUE

\* serial.c:394-396
PageHeader(s, a) ==
  putchar_r(putchar_r(putchar_r(putchar_r(s, 5), 16), a % 256), a \div 256)

\* serial.c:397-402
PageRaw(s, ee) ==
  IF ee.read_err THEN printfl(s, FMT.rerror) ELSE WritePageRaw(s, 16)

\* serial.c:392-408: the dump loop, n pages to go; t is the state after
\* one page
RECURSIVE DumpPagesRaw(_, _, _)
DumpPagesRaw(s, n, ee) ==
  IF n = 0 THEN s
  ELSE CHOOSE r \in
         { DumpPagesRaw(t, n - 1, ee) :
             t \in { [PageRaw(Call(PageHeader(s, s.eeprom_address % 65536),
                                   "eeprom_read_page"), ee)
                        EXCEPT !.eeprom_address = NextPage(@)] } } : TRUE

\* serial.c:387-413: "!I", dump 8 EEPROM pages in the compat format
CmdDumpRaw(s, ee) ==
  [Call(DumpPagesRaw(Call(s, "eeprom_poweron"), 8, ee), "eeprom_poweroff")
     EXCEPT !.last_was_bang = FALSE]

\* serial.c:447-456 and 461-470: queue a byte, or count the overflow
RxQueue(s, c) ==
  IF BUF_NOT_FULL(s.rx_insert, s.rx_remove, RX_BUFF_MAX)
  THEN BUF_INSERT_rx(s, c)
  ELSE [s EXCEPT !.errors.serial_rx_overflow = SatInc(@)]

IsLower(c) == c >= CH.a /\ c <= CH.z
IsDigit(c) == c >= CH.zero /\ c <= CH.nine

\* a command branch that leaves the escape pending
BangDone_keep(s) == s

\* last_was_bang = 0, the first statement of most command branches
BangDone(s) == [s EXCEPT !.last_was_bang = FALSE]

\* serial.c:423-430: "!Y"
CmdReinit(s) ==
  printfl(Call([s EXCEPT !.last_was_bang = FALSE,
                         !.tx_buffered_data = FALSE,
                         !.heartbeat_requested = FALSE], "reinit"),
          FMT.reinited)

\* serial.c:431-437: "!Z"
CmdReset(s) ==
  [Call(printfl(BangDone(s), FMT.reset), "reset") EXCEPT !.halted = TRUE]

\* serial.c:188-470: the escape scan, one received byte outside AT mode
\* (every command branch is guarded by last_was_bang in the source; the
\* test is made once here, after the '!' branch which does not need it)
EscapeScan(s, c, ee) ==
  IF c = CH.bang THEN CmdBang(s)
  ELSE IF ~s.last_was_bang THEN RxQueue(s, c)
  ELSE IF c = CH.M THEN Call(BangDone(s), "radio_set_transmit_power(30)")
  ELSE IF c = CH.H THEN Call(BangDone(s), "radio_set_transmit_power(24)")
  ELSE IF c = CH.L THEN Call(BangDone(s), "radio_set_transmit_power(0)")
  ELSE IF c = CH.P
    THEN printfl(Call(BangDone(s), "radio_get_transmit_power"), FMT.txpower)
  ELSE IF c = CH.B THEN CmdBoot(s)
  ELSE IF c = CH.C THEN CmdClear(BangDone(s))
  ELSE IF IsLower(c) \/ IsDigit(c) THEN CmdDebug(s, c, ee)
  ELSE IF c = CH.D THEN [BangDone(s) EXCEPT !.eeprom_param_request = TRUE]
  ELSE IF c = CH.E THEN CmdDumpText(s, ee)
  ELSE IF c = CH.I THEN CmdDumpRaw(s, ee)
  ELSE IF c = CH.F THEN Call(BangDone(s), "flash_report_summary")
  ELSE IF c = CH.zero THEN [BangDone(s) EXCEPT !.rx_insert = 0, !.rx_remove = 0]
  ELSE IF c = CH.Y THEN CmdReinit(s)
  ELSE IF c = CH.Z THEN CmdReset(s)
  ELSE IF c = CH.R THEN Call(BangDone(s), "param_default")
  ELSE IF c = CH.V THEN putchar_r(BangDone(s), CH.one)
  ELSE IF c = CH.dot THEN RxQueue(BangDone(s), CH.bang)
  ELSE putchar_r(BangDone(s), CH.E)

\* serial.c:471-475
CtsAssert(s) ==
  IF BUF_FREE(s.rx_insert, s.rx_remove, RX_BUFF_MAX) < SERIAL_CTS_THRESHOLD_LOW
  THEN [s EXCEPT !.SERIAL_CTS = TRUE]
  ELSE s

\* serial.c:471-475, not reached by a command that resets the device: it
\* spins in for(;;) and never returns
ScanDone(s) == IF s.halted THEN s ELSE CtsAssert(s)

\* serial.c:176-180
AtInput(s, c) ==
  IF ~s.at_cmd_ready THEN [s EXCEPT !.hist.at_input = Append(@, c)] ELSE s

\* serial.c:175-476: who owns the byte
RxDispatch(s, c, ee) ==
  IF s.at_mode_active THEN AtInput(s, c)
  ELSE ScanDone(EscapeScan(s, c, ee))

\* serial.c:138-477: if (RI0) { ... }
InterruptRx(s, ee) ==
  IF ~s.RI0 THEN s
  ELSE RxDispatch(UbootDetect([s EXCEPT !.RI0 = FALSE, !.c = s.SBUF0],
                              s.SBUF0),
                  s.SBUF0, ee)

\* mutant: the AT-mode test the wrong way round
RtsHolds_at(s) ==
  s.feature_rtscts /\ s.SERIAL_RTS /\ s.at_mode_active /\ s.rts_count = 0

\* serial.c:487-499: TRUE when the handler returns without sending
RtsHolds(s) ==
  s.feature_rtscts /\ s.SERIAL_RTS /\ ~s.at_mode_active /\ s.rts_count = 0

\* mutant: the credit is not used up
RtsCredit_nodec(s) ==
  IF ~s.feature_rtscts THEN s.rts_count
  ELSE IF s.SERIAL_RTS /\ ~s.at_mode_active THEN s.rts_count
  ELSE RTS_CREDIT

\* serial.c:487-499: the credit counter after the flow-control check
RtsCredit(s) ==
  IF ~s.feature_rtscts THEN s.rts_count
  ELSE IF s.SERIAL_RTS /\ ~s.at_mode_active THEN s.rts_count - 1
  ELSE RTS_CREDIT

\* history: bytes sent since the handler last found the gate open (the
\* line clear, or AT mode active)
SinceClear(s) ==
  IF s.feature_rtscts /\ s.SERIAL_RTS /\ ~s.at_mode_active
  THEN s.hist.since_clear + 1
  ELSE 0

\* history: bytes sent since the handler last sampled the line clear
SinceLow(s) ==
  IF s.feature_rtscts /\ s.SERIAL_RTS THEN s.hist.since_low + 1 ELSE 0

\* history: the line and the AT mode when rts_count was last set to 8
CreditAt(s) ==
  IF s.feature_rtscts /\ RtsCredit(s) = RTS_CREDIT
  THEN [ rts |-> s.SERIAL_RTS, at |-> s.at_mode_active ]
  ELSE s.hist.credit_at

\* serial.c:501-503: fetch and send a byte
SendByte(s) ==
  [s EXCEPT !.rts_count = RtsCredit(s),
            !.tx_remove = BUF_NEXT_REMOVE(@, TX_BUFF_MAX),
            !.c = s.tx_buf[s.tx_remove],
            !.tx_busy = TRUE,
            !.hist.uart_out = Append(@, s.tx_buf[s.tx_remove]),
            !.hist.since_clear = SinceClear(s),
            !.hist.since_low = SinceLow(s),
            !.hist.credit_at = CreditAt(s)]

\* serial.c:482-507, after TI0 = 0
TxNext(s) ==
  IF BUF_NOT_EMPTY(s.tx_insert, s.tx_remove)
  THEN IF RtsHolds(s) THEN [s EXCEPT !.tx_idle = TRUE] ELSE SendByte(s)
  ELSE [s EXCEPT !.tx_idle = TRUE]

\* serial.c:480-508: if (TI0) { ... }
InterruptTx(s) ==
  IF ~s.TI0 THEN s ELSE TxNext([s EXCEPT !.TI0 = FALSE])

\* serial.c:480-508, not reached once the handler spins in for(;;)
RxDone(s) == IF s.halted THEN s ELSE InterruptTx(s)

\* serial.c:132-509
serial_interrupt(s, ee) == RxDone(InterruptRx(s, ee))

(***************************************************************************)
(* Mainline operations.  Each step operator is one stretch of code that    *)
(* the serial interrupt cannot split: a section under ES0_SAVE_DISABLE or  *)
(* __critical, or one block of unprotected code between two of them.       *)
(***************************************************************************)
Return(s, op, r) ==
  [s EXCEPT !.pc = "idle", !.loc.op = op, !.loc.ret = r]

\* the bytes queued in a FIFO, oldest first
Contents(buf, ins, rem, size) ==
  [k \in 1 .. BUF_USED(ins, rem, size) |-> buf[(rem + k - 1) % size]]

RxContents(s) == Contents(s.rx_buf, s.rx_insert, s.rx_remove, RX_BUFF_MAX)
TxContents(s) == Contents(s.tx_buf, s.tx_insert, s.tx_remove, TX_BUFF_MAX)

\* what a caller can observe before an operation starts
Enter(s, op) ==
  [s EXCEPT !.loc.op = op,
            !.hist.isr_during = FALSE,
            !.hist.pre = [ rx |-> RxContents(s), tx |-> TxContents(s),
                           rx_insert |-> s.rx_insert,
                           rx_remove |-> s.rx_remove,
                           tx_insert |-> s.tx_insert,
                           tx_remove |-> s.tx_remove,
                           cts |-> s.SERIAL_CTS, errors |-> s.errors,
                           tx_idle |-> s.tx_idle, ti0 |-> s.TI0,
                           silence |-> s.uboot_silence_mode,
                           es0 |-> s.ES0,
                           rts_blocked |-> (s.feature_rtscts /\ s.SERIAL_RTS
                                              /\ ~s.at_mode_active) ]]

\* memcpy(&arr[at], src, Len(src))
Memcpy(arr, at, src) ==
  [i \in DOMAIN arr |->
     IF i >= at /\ i < at + Len(src) THEN src[i - at + 1] ELSE arr[i]]

\* the n bytes of arr from index at
Slice(arr, at, n) == [k \in 1 .. n |-> arr[at + k - 1]]

Min(a, b) == IF a < b THEN a ELSE b

\* ---- serial_write (serial.c:554-564) ----
\* serial.c:557
SilenceCheck(s) ==
  IF s.uboot_silence_mode THEN Return(s, "serial_write", FALSE)
  ELSE [s EXCEPT !.pc = "sw_space"]

serial_write_Silence(s, c) ==
  SilenceCheck(Enter([s EXCEPT !.loc.c = c], "serial_write"))

\* serial.c:559-560
serial_write_Space(s) ==
  IF serial_write_space(s) < 1
  THEN Return(MaskedRead(s, "tx_remove"), "serial_write", FALSE)
  ELSE [MaskedRead(s, "tx_remove") EXCEPT !.pc = "sw_put"]

\* serial.c:562-563
serial_write_Put(s) ==
  Return(_serial_write(s, s.loc.c), "serial_write", TRUE)

\* ---- serial_write_buf (serial.c:589-637) ----
\* serial.c:595-602
WriteBufSpace(s) ==
  IF s.loc.count = 0 THEN Return(s, "serial_write_buf", TRUE)
  ELSE [MaskedRead(s, "tx_remove")
          EXCEPT !.loc.space = serial_write_space(s), !.pc = "wb_copy1"]

serial_write_buf_Space(s, buf, count) ==
  WriteBufSpace(Enter([s EXCEPT !.loc.buf = buf, !.loc.count = count,
                                !.loc.arg_buf = buf, !.loc.arg_count = count],
                      "serial_write_buf"))

\* serial.c:603-604: discard any bytes that don't fit
WriteBufTruncate(s) ==
  IF s.loc.count > s.loc.space THEN [s EXCEPT !.loc.count = s.loc.space]
  ELSE s

\* serial.c:603-605: the counter is to be incremented
WriteBufOverflows(s) ==
  s.loc.count > s.loc.space /\ s.errors.serial_tx_overflow # U16_MAX

\* serial.c:605: the test has read the counter; the increment follows with
\* interrupts still enabled
WriteBufOverflowTest(s) ==
  [s EXCEPT !.loc.ovf = s.errors.serial_tx_overflow, !.pc = "wb_ovf"]

\* serial.c:606: errors.serial_tx_overflow++ in 16 bits, on the value in
\* memory (fresh) or on the value the test has read
WriteBufOverflowInc(s, fresh) ==
  [s EXCEPT !.errors.serial_tx_overflow =
              ((IF fresh THEN @ ELSE s.loc.ovf) + 1) % (U16_MAX + 1)]

\* serial.c:611-614
WriteBufN1(s) == Min(s.loc.count, TX_BUFF_MAX - s.tx_insert)

\* serial.c:611-617: write to the end of the ring buffer
WriteBufTail(s) ==
  [s EXCEPT !.tx_buf = Memcpy(@, s.tx_insert,
                              SubSeq(s.loc.buf, 1, WriteBufN1(s))),
            !.loc.buf = SubSeq(@, WriteBufN1(s) + 1, Len(@)),
            !.loc.count = @ - WriteBufN1(s),
            !.loc.n1 = WriteBufN1(s),
            !.pc = "wb_crit1"]

\* serial.c:603-617 up to the test of the counter, or all of it when
\* the counter is left alone
serial_write_buf_Copy1(s) ==
  IF WriteBufOverflows(s) THEN WriteBufOverflowTest(WriteBufTruncate(s))
  ELSE WriteBufTail(WriteBufTruncate(s))

\* serial.c:606-617
serial_write_buf_Overflow(s, fresh) ==
  WriteBufTail(WriteBufOverflowInc(s, fresh))

\* x -= size when x >= size, in 16-bit unsigned arithmetic
WrapIndex(x, size) ==
  IF x % 65536 >= size THEN (x - size) % 65536 ELSE x % 65536

\* serial.c:618-623
serial_write_buf_Crit1(s) ==
  [s EXCEPT !.tx_insert = WrapIndex(@ + s.loc.n1, TX_BUFF_MAX),
            !.hist.accepted = @ \o SubSeq(s.loc.arg_buf, 1, s.loc.n1),
            !.pc = IF s.loc.count # 0 THEN "wb_copy2" ELSE "wb_restart"]

\* serial.c:626-627
serial_write_buf_Copy2(s) ==
  [s EXCEPT !.tx_buf = Memcpy(@, 0, SubSeq(s.loc.buf, 1, s.loc.count)),
            !.pc = "wb_crit2"]

\* serial.c:628-630
serial_write_buf_Crit2(s) ==
  [s EXCEPT !.tx_insert = s.loc.count,
            !.hist.accepted = @ \o SubSeq(s.loc.buf, 1, s.loc.count),
            !.pc = "wb_restart"]

\* serial.c:632-636
serial_write_buf_Restart(s) ==
  Return(RestartIfIdle(s), "serial_write_buf", TRUE)

\* ---- serial_read_buf (serial.c:726-766) ----
\* serial.c:732-734
ReadBufAvailable(s) ==
  IF s.loc.count > serial_read_available(s)
  THEN Return(MaskedRead(s, "rx_insert"), "serial_read_buf", FALSE)
  ELSE [MaskedRead(s, "rx_insert") EXCEPT !.pc = "rb_copy1"]

\* what n successive serial_read calls return
RECURSIVE ReadN(_, _)
ReadN(s, n) ==
  IF n = 0 THEN << >>
  ELSE << serial_read(s).ret >> \o ReadN(serial_read(s), n - 1)

serial_read_buf_Available(s, count) ==
  ReadBufAvailable(Enter([s EXCEPT !.loc.count = count,
                                   !.loc.arg_count = count,
                                   !.loc.out = << >>,
                                   !.hist.expect = ReadN(s, count)],
                         "serial_read_buf"))

\* serial.c:736-739
ReadBufN1(s) == Min(s.loc.count, RX_BUFF_MAX - s.rx_remove)

\* serial.c:736-742: copy from the tail of the buffer
serial_read_buf_Copy1(s) ==
  [s EXCEPT !.loc.out = Slice(s.rx_buf, s.rx_remove, ReadBufN1(s)),
            !.loc.n1 = ReadBufN1(s),
            !.loc.count = @ - ReadBufN1(s),
            !.pc = "rb_crit1"]

\* serial.c:744-749
serial_read_buf_Crit1(s) ==
  [s EXCEPT !.rx_remove = WrapIndex(@ + s.loc.n1, RX_BUFF_MAX),
            !.pc = IF s.loc.count > 0 THEN "rb_copy2" ELSE "rb_cts"]

\* serial.c:751-752
serial_read_buf_Copy2(s) ==
  [s EXCEPT !.loc.out = @ \o Slice(s.rx_buf, 0, s.loc.count),
            !.pc = "rb_crit2"]

\* mutant: the index is set to the whole count, not to what was left over
serial_read_buf_Crit2_whole(s) ==
  [s EXCEPT !.rx_remove = s.loc.arg_count, !.pc = "rb_cts"]

\* serial.c:753-755
serial_read_buf_Crit2(s) ==
  [s EXCEPT !.rx_remove = s.loc.count, !.pc = "rb_cts"]

\* serial.c:758-765
serial_read_buf_Cts(s) ==
  Return([END_CRITICAL(CtsRelease(CRITICAL(s)), s.EA)
            EXCEPT !.hist.read_out = @ \o s.loc.out],
         "serial_read_buf", TRUE)

\* ---- serial_read called from mainline (serial.c:663-685) ----
ReadLog(s, was_empty) ==
  Return(IF was_empty THEN s
         ELSE [s EXCEPT !.hist.read_out = Append(@, s.ret)],
         "serial_read", s.ret)

serial_read_Main(s) ==
  ReadLog(serial_read(Enter(s, "serial_read")),
          BUF_EMPTY(s.rx_insert, s.rx_remove))

\* ---- serial_check_rts (serial.c:514-520) ----
serial_check_rts(s) ==
  IF BUF_NOT_EMPTY(s.tx_insert, s.tx_remove) /\ s.tx_idle
  THEN serial_restart(ReadShared(s, "tx_remove"))
  ELSE ReadShared(s, "tx_remove")

\* the same function where it matters that nothing masks the interrupt
\* between the test (serial.c:517) and the call of serial_restart
\* (serial.c:518)
serial_check_rts_Test(s) ==
  IF BUF_NOT_EMPTY(s.tx_insert, s.tx_remove) /\ s.tx_idle
  THEN [ReadShared(s, "tx_remove") EXCEPT !.pc = "cr_restart"]
  ELSE Return(ReadShared(s, "tx_remove"), "serial_check_rts", TRUE)

serial_check_rts_Restart(s) ==
  Return(serial_restart(s), "serial_check_rts", TRUE)

(***************************************************************************)
(* Initial states.  Boot is the state in which main() enters the serial    *)
(* loop (main.c:120-152 after serial_init, serial.c:522-552); the uboot    *)
(* silence window set at power-on has either run out or not.  A start      *)
(* state may also be a later quiescent state: the FIFO indices have moved  *)
(* on by `rx_at' / `tx_at' bytes that were queued and consumed earlier.    *)
(***************************************************************************)
NoPre == [ rx |-> << >>, tx |-> << >>, rx_insert |-> 0, rx_remove |-> 0,
           tx_insert |-> 0, tx_remove |-> 0, cts |-> FALSE,
           errors |-> [serial_rx_overflow |-> 0, serial_tx_overflow |-> 0],
           tx_idle |-> TRUE, ti0 |-> FALSE, silence |-> FALSE,
           rts_blocked |-> FALSE, es0 |-> TRUE ]

NoLoc == [ op |-> "none", ret |-> FALSE, c |-> 0, buf |-> << >>,
           count |-> 0, arg_buf |-> << >>, arg_count |-> 0, space |-> 0,
           n1 |-> 0, out |-> << >>, ovf |-> 0 ]

NoHist == [ uart_out |-> << >>, calls |-> << >>, at_input |-> << >>,
            accepted |-> << >>, who |-> "init", isr_during |-> FALSE,
            pre |-> NoPre, payload |-> << >>, pushed |-> << >>,
            read_out |-> << >>, ops |-> 0, since_clear |-> 0,
            mode |-> "none", expect |-> << >>,
            before |-> [ rx_insert |-> 0, rx_remove |-> 0,
                         tx_insert |-> 0, tx_remove |-> 0,
                         rts_count |-> 0, ti0 |-> FALSE, cts |-> FALSE,
                         errors |-> [serial_rx_overflow |-> 0,
                                     serial_tx_overflow |-> 0],
                         ri0 |-> FALSE, bang |-> FALSE, flushes |-> 0,
                         ncalls |-> 0, silence |-> FALSE,
                         unmasked |-> { } ],
            flushes |-> 0,
            since_low |-> 0,
            credit_at |-> [ rts |-> FALSE, at |-> FALSE ] ]

Boot ==
  [ rx_buf |-> [i \in 0 .. RX_BUFF_MAX - 1 |-> 0],
    tx_buf |-> [i \in 0 .. TX_BUFF_MAX - 1 |-> 0],
    rx_insert |-> 0, rx_remove |-> 0, tx_insert |-> 0, tx_remove |-> 0,
    rts_count |-> 0, tx_idle |-> TRUE,
    last_was_bang |-> FALSE, tx_buffered_data |-> FALSE,
    uboot_counter |-> 0, last_byte |-> 0,
    uboot_silence_mode |-> FALSE, uboot_silence_counter |-> 0,
    errors |-> [serial_rx_overflow |-> 0, serial_tx_overflow |-> 0],
    eeprom_address |-> 0, heartbeat_requested |-> FALSE,
    eeprom_param_request |-> FALSE,
    ES0 |-> TRUE, RI0 |-> FALSE, TI0 |-> FALSE, SBUF0 |-> 0,
    tx_busy |-> FALSE, SERIAL_CTS |-> FALSE, SERIAL_RTS |-> FALSE,
    LED_BOOTLOADER |-> FALSE, feature_rtscts |-> FALSE,
    at_mode_active |-> FALSE, at_cmd_ready |-> FALSE, halted |-> FALSE,
    pc |-> "idle", loc |-> NoLoc, wire_in |-> << >>, hist |-> NoHist ]

\* the power-on silence window still running (main.c:141-143)
Silenced(s) ==
  [s EXCEPT !.uboot_silence_mode = TRUE, !.uboot_silence_counter = 100]

\* both FIFOs empty, with the indices where earlier traffic left them
StartAt(s, rx_at, tx_at) ==
  [s EXCEPT !.rx_insert = rx_at, !.rx_remove = rx_at,
            !.tx_insert = tx_at, !.tx_remove = tx_at]

\* the interleaver is not in use
NoIl == [ n |-> 0, in |-> << >>, op |-> "none", bit |-> 0, index |-> 0,
          value |-> 0, ret |-> 0, fill |-> 0, block |-> << >>,
          written |-> { } ]

SerialFrom(s) ==
  /\ rx_buf = s.rx_buf /\ tx_buf = s.tx_buf
  /\ rx_insert = s.rx_insert /\ rx_remove = s.rx_remove
  /\ tx_insert = s.tx_insert /\ tx_remove = s.tx_remove
  /\ rts_count = s.rts_count /\ tx_idle = s.tx_idle
  /\ last_was_bang = s.last_was_bang
  /\ tx_buffered_data = s.tx_buffered_data
  /\ uboot_counter = s.uboot_counter /\ last_byte = s.last_byte
  /\ uboot_silence_mode = s.uboot_silence_mode
  /\ uboot_silence_counter = s.uboot_silence_counter
  /\ errors = s.errors /\ eeprom_address = s.eeprom_address
  /\ heartbeat_requested = s.heartbeat_requested
  /\ eeprom_param_request = s.eeprom_param_request
  /\ ES0 = s.ES0 /\ RI0 = s.RI0 /\ TI0 = s.TI0 /\ SBUF0 = s.SBUF0
  /\ tx_busy = s.tx_busy /\ SERIAL_CTS = s.SERIAL_CTS
  /\ SERIAL_RTS = s.SERIAL_RTS /\ LED_BOOTLOADER = s.LED_BOOTLOADER
  /\ feature_rtscts = s.feature_rtscts
  /\ at_mode_active = s.at_mode_active /\ at_cmd_ready = s.at_cmd_ready
  /\ halted = s.halted
  /\ pc = s.pc /\ loc = s.loc /\ wire_in = s.wire_in /\ hist = s.hist

InitFrom(s) == SerialFrom(s) /\ il = NoIl

(***************************************************************************)
(* Actions                                                                 *)
(***************************************************************************)
\* history: which context took the step, and the FIFO indices it found
By(s, who) ==
  [s EXCEPT !.hist.who = who,
            !.hist.before = [ rx_insert |-> rx_insert, rx_remove |-> rx_remove,
                              tx_insert |-> tx_insert, tx_remove |-> tx_remove,
                              rts_count |-> rts_count, ti0 |-> TI0,
                              cts |-> SERIAL_CTS, errors |-> errors,
                              ri0 |-> RI0, bang |-> last_was_bang,
                              flushes |-> hist.flushes,
                              ncalls |-> Len(hist.calls),
                              silence |-> uboot_silence_mode,
                              unmasked |-> s.unmasked ]]

\* results of the EEPROM driver calls made by the handler
NoEepromError == [write_err |-> FALSE, read_err |-> FALSE]

\* the UART has received the next byte from the host
HostSends ==
  /\ ~halted /\ wire_in # << >> /\ ~RI0
  /\ Apply(By([Cur EXCEPT !.SBUF0 = Head(wire_in), !.RI0 = TRUE,
                          !.wire_in = Tail(wire_in)], "host"))

\* the UART has finished shifting a byte out
TxDone ==
  /\ ~halted /\ tx_busy
  /\ Apply(By([Cur EXCEPT !.tx_busy = FALSE, !.TI0 = TRUE], "uart"))

\* the serial interrupt is taken (mainline is outside its masked sections
\* whenever the model is between two steps)
SerialInterrupt(EE) ==
  /\ ~halted /\ ES0 /\ (RI0 \/ TI0)
  /\ \E ee \in EE :
       Apply(By([serial_interrupt(Cur, ee) EXCEPT !.hist.isr_during = TRUE],
                "isr"))

\* the peer changes its RTS line
PeerRts ==
  /\ ~halted
  /\ Apply(By([Cur EXCEPT !.SERIAL_RTS = ~SERIAL_RTS], "peer"))

\* the AT command processor enters or leaves command mode
AtMode ==
  /\ ~halted
  /\ Apply(By([Cur EXCEPT !.at_mode_active = ~at_mode_active], "at"))

Op(s) == By([s EXCEPT !.hist.ops = @ + 1], "main")

MainSerialWrite(cs) ==
  /\ ~halted /\ pc = "idle"
  /\ \E c \in cs : Apply(Op(serial_write_Silence(Cur, c)))

MainSerialWriteBuf(bufs) ==
  /\ ~halted /\ pc = "idle"
  /\ \E b \in bufs : Apply(Op(serial_write_buf_Space(Cur, b, Len(b))))

MainSerialRead ==
  /\ ~halted /\ pc = "idle"
  /\ Apply(Op(serial_read_Main(Cur)))

MainSerialReadBuf(ns) ==
  /\ ~halted /\ pc = "idle"
  /\ \E n \in ns : Apply(Op(serial_read_buf_Available(Cur, n)))

MainCheckRts ==
  /\ ~halted /\ pc = "idle"
  /\ Apply(By(Return(serial_check_rts(Enter(Cur, "serial_check_rts")),
                     "serial_check_rts", TRUE), "main"))

\* serial_check_rts() called from mainline, the interrupt not excluded
\* between its test and its restart
MainSerialCheckRts ==
  /\ ~halted /\ pc = "idle"
  /\ Apply(By(serial_check_rts_Test(Enter(Cur, "serial_check_rts")), "main"))

\* mainline continues the operation it is in
MainStep ==
  /\ ~halted /\ pc # "idle"
  /\ \E fresh \in (IF pc = "wb_ovf" THEN BOOLEAN ELSE { TRUE }) :
     Apply(By(CASE pc = "sw_space"   -> serial_write_Space(Cur)
                [] pc = "sw_put"     -> serial_write_Put(Cur)
                [] pc = "wb_copy1"   -> serial_write_buf_Copy1(Cur)
                [] pc = "wb_ovf"     -> serial_write_buf_Overflow(Cur, fresh)
                [] pc = "wb_crit1"   -> serial_write_buf_Crit1(Cur)
                [] pc = "wb_copy2"   -> serial_write_buf_Copy2(Cur)
                [] pc = "wb_crit2"   -> serial_write_buf_Crit2(Cur)
                [] pc = "wb_restart" -> serial_write_buf_Restart(Cur)
                [] pc = "rb_copy1"   -> serial_read_buf_Copy1(Cur)
                [] pc = "rb_crit1"   -> serial_read_buf_Crit1(Cur)
                [] pc = "rb_copy2"   -> serial_read_buf_Copy2(Cur)
                [] pc = "rb_crit2"   -> serial_read_buf_Crit2(Cur)
                [] pc = "rb_cts"     -> serial_read_buf_Cts(Cur)
                [] pc = "cr_restart" -> serial_check_rts_Restart(Cur),
              "main"))

(***************************************************************************)
(* Escape-encoded payload fed to the receive interrupt                     *)
(***************************************************************************)
MaxPayload == 4

SeqsUpTo(S, n) == UNION { [1 .. k -> S] : k \in 0 .. n }

\* payload bytes: the escape character, the literal marker, a command
\* letter and a plain data byte
PayloadBytes == { CH.bang, CH.dot, CH.V, CH.x }

\* the host's encoding of a payload: each '!' is sent as '!' '.'
RECURSIVE Encode(_)
Encode(P) ==
  IF P = << >> THEN << >>
  ELSE (IF Head(P) = CH.bang THEN << CH.bang, CH.dot >> ELSE << Head(P) >>)
         \o Encode(Tail(P))

InitPayload ==
  \E P \in SeqsUpTo(PayloadBytes, MaxPayload),
     at \in { 0, RX_BUFF_MAX - 2 }, sil \in BOOLEAN :
    LET s0 == StartAt(IF sil THEN Silenced(Boot) ELSE Boot, at, 0)
    IN  InitFrom([s0 EXCEPT !.wire_in = Encode(P), !.hist.payload = P])

NextPayload == HostSends \/ SerialInterrupt({ NoEepromError })

SpecPayload == InitPayload /\ [][NextPayload]_vars

IsPrefix(a, b) == Len(a) <= Len(b) /\ a = SubSeq(b, 1, Len(a))

\* C1: a payload sent with every '!' encoded as "!." arrives in the RX
\* FIFO unchanged and in order; nothing is dispatched, the flush signal
\* is not raised and nothing is emitted on the outbound stream.
C1_PayloadTransparent ==
  /\ IsPrefix(RxContents(Cur), hist.payload)
  /\ hist.calls = << >>
  /\ ~tx_buffered_data
  /\ hist.accepted = << >> /\ tx_insert = tx_remove
  /\ hist.uart_out = << >>
  /\ ~halted
  /\ (wire_in = << >> /\ ~RI0 =>
        /\ RxContents(Cur) = hist.payload
        /\ ~last_was_bang)

C1_Witness ==
  /\ wire_in = << >> /\ ~RI0
  /\ hist.payload = << CH.x, CH.bang, CH.bang, CH.V >>
  /\ RxContents(Cur) = hist.payload
  /\ rx_insert < rx_remove

(***************************************************************************)
(* Filling a FIFO past its capacity with nothing removed meanwhile: the RX *)
(* FIFO by the receive interrupt, the TX FIFO by serial_write while the    *)
(* peer's RTS line holds the transmitter off; then the FIFO is read back.  *)
(***************************************************************************)
MaxExtra == 2

\* the k-th byte pushed: plain data, never '!' nor a bootloader banner byte
Pattern(k) == 64 + (k % 61)

Max(a, b) == IF a > b THEN a ELSE b

InitFill ==
  \/ \E N \in RX_BUFF_MAX + 1 .. RX_BUFF_MAX + MaxExtra, at \in { 0, 200 } :
       InitFrom([StartAt(Boot, at, 0)
                   EXCEPT !.wire_in = [k \in 1 .. N |-> Pattern(k)],
                          !.hist.payload = [k \in 1 .. N |-> Pattern(k)],
                          !.hist.mode = "rx"])
  \/ \E N \in TX_BUFF_MAX + 1 .. TX_BUFF_MAX + MaxExtra, at \in { 0, 300 } :
       InitFrom([StartAt(Boot, 0, at)
                   EXCEPT !.feature_rtscts = TRUE, !.SERIAL_RTS = TRUE,
                          !.hist.payload = [k \in 1 .. N |-> Pattern(k)],
                          !.hist.mode = "tx"])

\* the next serial_write of the push sequence
FillPush ==
  /\ hist.mode = "tx" /\ hist.ops < Len(hist.payload)
  /\ MainSerialWrite({ hist.payload[hist.ops + 1] })

\* every push has been made
PushesDone ==
  IF hist.mode = "tx" THEN hist.ops = Len(hist.payload) /\ pc = "idle"
  ELSE wire_in = << >> /\ ~RI0

\* the peer lets the transmitter go once the pushes are done
FillRelease == hist.mode = "tx" /\ PushesDone /\ SERIAL_RTS /\ PeerRts

\* the main loop's serial_check_rts, taken when it has something to do
FillCheckRts ==
  /\ hist.mode = "tx" /\ PushesDone /\ ~SERIAL_RTS /\ tx_idle
  /\ BUF_NOT_EMPTY(tx_insert, tx_remove)
  /\ MainCheckRts

FillRead ==
  /\ hist.mode = "rx" /\ PushesDone /\ BUF_NOT_EMPTY(rx_insert, rx_remove)
  /\ MainSerialRead

NextFill ==
  \/ HostSends
  \/ SerialInterrupt({ NoEepromError })
  \/ TxDone
  \/ FillPush
  \/ MainStep
  \/ FillRelease
  \/ FillCheckRts
  \/ FillRead

SpecFill == InitFill /\ [][NextFill]_vars

\* pushes made so far: bytes handled by the receive interrupt, or
\* serial_write calls that have returned
Pushes ==
  IF hist.mode = "tx" THEN hist.ops - (IF pc = "idle" THEN 0 ELSE 1)
  ELSE Len(hist.payload) - Len(wire_in) - (IF RI0 THEN 1 ELSE 0)

\* C2: after k single-byte pushes into an empty FIFO of capacity C with
\* nothing removed in between, the FIFO holds the first min(k, C-1) bytes
\* pushed, they are read back in that order, and the overflow counter is
\* k-(C-1) once k exceeds C-1 (0 before); so N > C pushes retain the first
\* C-1 bytes and count N-(C-1) overflows.
C2_OverflowAccounting ==
  /\ hist.mode = "rx" =>
       /\ hist.read_out \o RxContents(Cur)
            = SubSeq(hist.payload, 1, Min(Pushes, RX_BUFF_MAX - 1))
       /\ errors.serial_rx_overflow = Max(0, Pushes - (RX_BUFF_MAX - 1))
       /\ errors.serial_tx_overflow = 0
  /\ hist.mode = "tx" =>
       /\ hist.uart_out \o TxContents(Cur)
            = SubSeq(hist.payload, 1, Min(Pushes, TX_BUFF_MAX - 1))
       /\ errors.serial_tx_overflow = Max(0, Pushes - (TX_BUFF_MAX - 1))
       /\ errors.serial_rx_overflow = 0

\* 514 serial_write calls into the 512-byte TX FIFO, then drained to the
\* UART across the end of the array: 511 bytes out, three overflows
C2_Witness ==
  /\ hist.mode = "tx" /\ PushesDone
  /\ Len(hist.payload) = TX_BUFF_MAX + 2
  /\ tx_insert = tx_remove /\ tx_insert < 300
  /\ Len(hist.uart_out) = TX_BUFF_MAX - 1
  /\ errors.serial_tx_overflow = 3

(***************************************************************************)
(* Mainline writes into a TX FIFO that earlier traffic has left empty,     *)
(* nearly full or full.  The FIFO is full after two serial_write_buf calls *)
(* of 255 bytes and one serial_write when nothing is being sent; the start *)
(* states take up from there.                                              *)
(***************************************************************************)
MaxCalls == 2
MaxSent == 2

\* the TX FIFO holding `used' bytes from index `at'
TxQueued(s, at, used) ==
  [s EXCEPT !.tx_remove = at,
            !.tx_insert = (at + used) % TX_BUFF_MAX,
            !.tx_buf = [i \in 0 .. TX_BUFF_MAX - 1 |->
                          IF (i - at) % TX_BUFF_MAX < used
                          THEN Pattern(((i - at) % TX_BUFF_MAX) + 1) ELSE 0],
            !.hist.accepted = [k \in 1 .. used |-> Pattern(k)]]

\* the transmitter is held off by the peer's RTS line, or is running with
\* a byte in the UART when there is something queued
TxLine(s, blocked) ==
  IF blocked THEN [s EXCEPT !.feature_rtscts = TRUE, !.SERIAL_RTS = TRUE]
  ELSE IF BUF_NOT_EMPTY(s.tx_insert, s.tx_remove)
  THEN [s EXCEPT !.tx_idle = FALSE, !.tx_busy = TRUE]
  ELSE s

InitTx ==
  \E used \in { 0, TX_BUFF_MAX - 3, TX_BUFF_MAX - 2, TX_BUFF_MAX - 1 },
     at \in { 0, 2, 300 }, sil \in BOOLEAN, blocked \in BOOLEAN :
    InitFrom(TxLine(TxQueued(IF sil THEN Silenced(Boot) ELSE Boot, at, used),
                    blocked))

\* the caller's block of n bytes
Block(n) == [k \in 1 .. n |-> 160 + (k % 50)]

TxWriteBuf ==
  hist.ops < MaxCalls /\ MainSerialWriteBuf({ Block(1), Block(2), Block(255) })

TxWrite == hist.ops < MaxCalls /\ MainSerialWrite({ 200 })

\* the UART finishes a byte (a bounded number of them)
TxSent == Len(hist.uart_out) <= MaxSent /\ TxDone

NextTx ==
  \/ TxWriteBuf
  \/ TxWrite
  \/ MainStep
  \/ SerialInterrupt({ NoEepromError })
  \/ TxSent

SpecTx == InitTx /\ [][NextTx]_vars

\* usable room in the TX FIFO before the call: capacity - used - 1
TrueFree == TX_BUFF_MAX - 1 - Len(hist.pre.tx)

\* C3: when serial_write_buf(buf, count) returns (no interrupt having
\* drained the FIFO meanwhile), the TX FIFO holds its previous contents
\* followed by the first min(count, free) bytes of buf.
C3_WriteBufPrefix ==
  (pc = "idle" /\ loc.op = "serial_write_buf" /\ ~hist.isr_during) =>
    TxContents(Cur)
      = hist.pre.tx \o SubSeq(loc.arg_buf, 1, Min(loc.arg_count, TrueFree))

\* C4: when serial_write(c) returns (no interrupt in between): with
\* silence mode on or the TX FIFO full it has returned false and left the
\* FIFO and the overflow counter alone; otherwise it has returned true and
\* appended c, and an idle transmitter that RTS does not hold off has been
\* restarted.
C4_WriteContract ==
  (pc = "idle" /\ loc.op = "serial_write" /\ ~hist.isr_during) =>
    IF hist.pre.silence \/ TrueFree = 0
    THEN /\ loc.ret = FALSE
         /\ TxContents(Cur) = hist.pre.tx
         /\ errors = hist.pre.errors
    ELSE /\ loc.ret = TRUE
         /\ TxContents(Cur) = Append(hist.pre.tx, loc.c)
         /\ (hist.pre.tx_idle /\ ~hist.pre.rts_blocked => ~tx_idle /\ TI0)

(***************************************************************************)
(* Mainline reads from the RX FIFO while the host keeps sending plain data *)
(***************************************************************************)
MaxWire == 5
MaxBlock == 4
MaxReads == 3

InitReadBuf ==
  \E at \in { 0, RX_BUFF_MAX - 3, RX_BUFF_MAX - 2 } :
    InitFrom([StartAt(Boot, at, 0)
                EXCEPT !.wire_in = [k \in 1 .. MaxWire |-> Pattern(k)]])

RbReadBuf == hist.ops < MaxReads /\ MainSerialReadBuf(0 .. MaxBlock)

RbRead == hist.ops < MaxReads /\ MainSerialRead

NextReadBuf ==
  \/ HostSends
  \/ SerialInterrupt({ NoEepromError })
  \/ RbReadBuf
  \/ RbRead
  \/ MainStep

SpecReadBuf == InitReadBuf /\ [][NextReadBuf]_vars

\* serial_read_buf has just returned
ReadBufReturned ==
  pc = "idle" /\ loc.op = "serial_read_buf" /\ hist.who = "main"

\* C5: serial_read_buf(buf, n) with n above the bytes available returns
\* false and leaves the RX indices, the RX contents and SERIAL_CTS as they
\* were; otherwise it returns true, buf holds the n oldest bytes in order
\* (what n serial_read calls return), the remove index has advanced by n
\* modulo the array size and the bytes after the n-th stay queued in order
\* ahead of anything received meanwhile.
C5_ReadBuf ==
  ReadBufReturned =>
    IF loc.arg_count > Len(hist.pre.rx)
    THEN /\ loc.ret = FALSE
         /\ rx_remove = hist.pre.rx_remove /\ rx_insert = hist.pre.rx_insert
         /\ RxContents(Cur) = hist.pre.rx
         /\ SERIAL_CTS = hist.pre.cts
    ELSE /\ loc.ret = TRUE
         /\ loc.out = SubSeq(hist.pre.rx, 1, loc.arg_count)
         /\ loc.out = hist.expect
         /\ rx_remove = (hist.pre.rx_remove + loc.arg_count) % RX_BUFF_MAX
         /\ IsPrefix(SubSeq(hist.pre.rx, loc.arg_count + 1, Len(hist.pre.rx)),
                     RxContents(Cur))

\* a block of 4 taken across the end of the array, one byte left queued
C5_Witness ==
  /\ ReadBufReturned /\ loc.ret = TRUE
  /\ loc.arg_count = 4 /\ loc.n1 = 2 /\ rx_remove = 2
  /\ loc.out = << Pattern(1), Pattern(2), Pattern(3), Pattern(4) >>
  /\ RxContents(Cur) = << Pattern(5) >>

ReadBufPcs == { "rb_copy1", "rb_crit1", "rb_copy2", "rb_crit2", "rb_cts" }

\* C8: a serial interrupt taken while mainline is inside a successful
\* serial_read_buf of n bytes finds the RX remove index either where it
\* was before the call or n bytes further on.
C8_AtomicRemoval ==
  (hist.who = "isr" /\ pc \in ReadBufPcs) =>
    hist.before.rx_remove
      \in { hist.pre.rx_remove,
            (hist.pre.rx_remove + loc.arg_count) % RX_BUFF_MAX }

(***************************************************************************)
(* Mainline writes interleaved with a serial interrupt that handles escape *)
(* commands from the host and drains the TX FIFO                           *)
(***************************************************************************)
\* "!V" (version, answers '1'), "!T" (no such command, answers 'E') and a
\* data byte followed by "!C" (empty the RX FIFO)
ConcWires ==
  { << CH.bang, CH.V >>, << CH.bang, CH.T >>, << CH.x, CH.bang, CH.C >> }

InitConc ==
  \E w \in ConcWires, at \in { 0, TX_BUFF_MAX - 1 } :
    InitFrom([StartAt(Boot, 0, at) EXCEPT !.wire_in = w])

ConcWriteBuf ==
  hist.ops < MaxCalls /\ MainSerialWriteBuf({ Block(1), Block(2) })

NextConc ==
  \/ HostSends
  \/ SerialInterrupt({ NoEepromError })
  \/ TxSent
  \/ ConcWriteBuf
  \/ TxWrite
  \/ MainStep

SpecConc == InitConc /\ [][NextConc]_vars

\* C6: the bytes handed to the UART are the bytes accepted into the TX
\* FIFO, in the order of acceptance, each once and unchanged: what has
\* been sent is a prefix of what was accepted, and between mainline calls
\* what has been sent followed by what is queued is what was accepted.
C6_StrictFifo ==
  /\ IsPrefix(hist.uart_out, hist.accepted)
  /\ pc = "idle" => hist.uart_out \o TxContents(Cur) = hist.accepted

\* C7: a step of the interrupt handler leaves rx_remove and tx_insert as
\* it found them, and a step of mainline leaves rx_insert and tx_remove
\* as it found them.
C7_Ownership ==
  /\ hist.who = "isr" =>
       /\ rx_remove = hist.before.rx_remove
       /\ tx_insert = hist.before.tx_insert
  /\ hist.who = "main" =>
       /\ rx_insert = hist.before.rx_insert
       /\ tx_remove = hist.before.tx_remove

(***************************************************************************)
(* Hardware flow control: mainline queues bytes while the peer moves its   *)
(* RTS line and the AT command processor enters and leaves command mode    *)
(***************************************************************************)
MaxFlowCalls == 2
MaxBurst == 10

InitFlow ==
  \E rts \in BOOLEAN :
    InitFrom([Boot EXCEPT !.feature_rtscts = TRUE, !.SERIAL_RTS = rts])

\* mainline queues the next block or byte once the transmitter has run dry
FlowReady ==
  hist.ops < MaxFlowCalls /\ tx_idle /\ BUF_EMPTY(tx_insert, tx_remove)

FlowWriteBuf == FlowReady /\ MainSerialWriteBuf({ Block(MaxBurst) })

FlowWrite == FlowReady /\ MainSerialWrite({ 200 })

\* the main loop's serial_check_rts, taken when it has something to do
FlowCheckRts ==
  tx_idle /\ BUF_NOT_EMPTY(tx_insert, tx_remove) /\ MainCheckRts

NextFlow ==
  \/ FlowWriteBuf
  \/ FlowWrite
  \/ MainStep
  \/ FlowCheckRts
  \/ SerialInterrupt({ NoEepromError })
  \/ TxDone
  \/ PeerRts
  \/ AtMode

SpecFlow == InitFlow /\ [][NextFlow]_vars

\* flow control is on, the peer signals "no room" and AT mode is off
RtsBlocked == feature_rtscts /\ SERIAL_RTS /\ ~at_mode_active

\* C9, as stated: an interrupt taken with flow control on, outside AT mode
\* and the peer line at "no room" removes no byte from the TX FIFO.
C9_NoDrainWhileBlocked ==
  (hist.who = "isr" /\ RtsBlocked) => tx_remove = hist.before.tx_remove

\* C9, amended: such an interrupt removes no byte once the credit left
\* from the last sampling of an open gate (rts_count) is used up.
C9_NoDrainWithoutCredit ==
  (hist.who = "isr" /\ RtsBlocked /\ hist.before.rts_count = 0) =>
    tx_remove = hist.before.tx_remove

\* a transmit interrupt refused with bytes queued, after the credit of 8
\* was used up against a line at "no room"
C9_Witness ==
  /\ hist.who = "isr" /\ RtsBlocked
  /\ hist.before.rts_count = 0 /\ hist.before.ti0
  /\ BUF_NOT_EMPTY(tx_insert, tx_remove)
  /\ hist.since_clear = RTS_CREDIT
  /\ tx_remove = hist.before.tx_remove /\ tx_idle

\* C10, as stated: rts_count is in 0..8, it was last set to 8 with the
\* line sampled clear, and no more than 8 bytes have been sent since the
\* line was last sampled clear.
C10_CreditOnlyOnClear ==
  /\ rts_count \in 0 .. RTS_CREDIT
  /\ ~hist.credit_at.rts
  /\ hist.since_low <= RTS_CREDIT

\* C10, amended: rts_count is in 0..8; it is set to 8 only when the
\* transmit interrupt finds the line clear or AT mode active; outside AT
\* mode no more than 8 bytes are sent while the line stays at "no room"
\* (bytes sent plus credit left never exceed 8), and a transmit interrupt
\* taken after that marks the transmitter idle and sends nothing.
C10_CreditBound ==
  /\ rts_count \in 0 .. RTS_CREDIT
  /\ hist.credit_at.rts => hist.credit_at.at
  /\ hist.since_clear + rts_count <= RTS_CREDIT
  /\ (hist.who = "isr" /\ RtsBlocked /\ hist.before.ti0
        /\ hist.before.rts_count = 0) =>
       tx_idle /\ ~TI0 /\ tx_remove = hist.before.tx_remove

\* the eighth byte sent on credit against a line at "no room", more queued
C10_Witness ==
  /\ hist.who = "isr" /\ RtsBlocked
  /\ hist.since_clear = RTS_CREDIT /\ rts_count = 0
  /\ hist.before.rts_count = 1
  /\ tx_busy /\ ~tx_idle /\ BUF_NOT_EMPTY(tx_insert, tx_remove)

(***************************************************************************)
(* The RX FIFO around the CTS watermarks: the host sends data, mainline    *)
(* reads single bytes and blocks                                           *)
(***************************************************************************)
MaxCtsWire == 5
MaxCtsReads == 8

\* the RX FIFO holding `used' bytes from index `at'
RxQueued(s, at, used) ==
  [s EXCEPT !.rx_remove = at,
            !.rx_insert = (at + used) % RX_BUFF_MAX,
            !.rx_buf = [i \in 0 .. RX_BUFF_MAX - 1 |->
                          IF (i - at) % RX_BUFF_MAX < used
                          THEN Pattern(((i - at) % RX_BUFF_MAX) + 1) ELSE 0]]

\* 236 bytes queued on the way up from empty: CTS still clear
InitCts ==
  \E at \in { 0, 100 } :
    InitFrom([RxQueued(Boot, at, 236)
                EXCEPT !.wire_in = [k \in 1 .. MaxCtsWire |-> Pattern(k)]])

CtsRead ==
  hist.ops < MaxCtsReads /\ BUF_NOT_EMPTY(rx_insert, rx_remove)
    /\ MainSerialRead

CtsReadBuf == hist.ops < MaxCtsReads /\ MainSerialReadBuf({ 3 })

NextCts ==
  \/ HostSends
  \/ SerialInterrupt({ NoEepromError })
  \/ CtsRead
  \/ CtsReadBuf
  \/ MainStep

SpecCts == InitCts /\ [][NextCts]_vars

\* room in the RX FIFO: the bytes that can still be queued
RxFree == RX_BUFF_MAX - 1 - BUF_USED(rx_insert, rx_remove, RX_BUFF_MAX)

\* C11: SERIAL_CTS is asserted whenever RX free space is below 17; a step
\* de-asserts it only with free space above 34 and asserts it only with
\* free space below 17 (so it never toggles between the watermarks).
C11_Hysteresis ==
  /\ RxFree < SERIAL_CTS_THRESHOLD_LOW => SERIAL_CTS
  /\ hist.before.cts /\ ~SERIAL_CTS => RxFree > SERIAL_CTS_THRESHOLD_HIGH
  /\ ~hist.before.cts /\ SERIAL_CTS => RxFree < SERIAL_CTS_THRESHOLD_LOW

(***************************************************************************)
(* The escape scan on arbitrary short byte streams                         *)
(***************************************************************************)
MaxEscape == 4

\* the escape character, the literal marker, a command letter, a command
\* digit, and an upper-case and a lower-case letter that name no command
EscapeBytes == { CH.bang, CH.dot, CH.M, CH.five, CH.T, CH.a }

InitEscape ==
  \E W \in SeqsUpTo(EscapeBytes, MaxEscape), sil \in BOOLEAN :
    InitFrom([(IF sil THEN Silenced(Boot) ELSE Boot)
                EXCEPT !.wire_in = W, !.hist.payload = W])

NextEscape == HostSends \/ SerialInterrupt({ NoEepromError }) \/ TxDone

SpecEscape == InitEscape /\ [][NextEscape]_vars

\* the bytes the receive interrupt has taken so far
Consumed ==
  SubSeq(hist.payload, 1,
         Len(hist.payload) - Len(wire_in) - (IF RI0 THEN 1 ELSE 0))

\* completed pairs of consecutive escape characters in w, scanning with
\* the escape pending or not
RECURSIVE Pairs(_, _)
Pairs(w, pending) ==
  IF w = << >> THEN 0
  ELSE IF Head(w) = CH.bang
    THEN (IF pending THEN 1 ELSE 0) + Pairs(Tail(w), ~pending)
    ELSE Pairs(Tail(w), FALSE)

\* the step just taken was the receive interrupt on byte SBUF0 with the
\* escape pending
EscapedByte == hist.who = "isr" /\ hist.before.ri0 /\ hist.before.bang

\* C12: a second consecutive '!' queues nothing to RX, raises
\* tx_buffered_data once and leaves the escape not pending; the stream "!!"
\* alone ends with an empty RX FIFO and one flush; in general the flush is
\* raised once per completed pair of consecutive escape characters.
C12_DoubledEscape ==
  /\ EscapedByte /\ SBUF0 = CH.bang =>
       /\ rx_insert = hist.before.rx_insert
       /\ hist.flushes = hist.before.flushes + 1
       /\ tx_buffered_data /\ ~last_was_bang
  /\ hist.payload = << CH.bang, CH.bang >> /\ wire_in = << >> /\ ~RI0 =>
       /\ rx_insert = rx_remove
       /\ hist.flushes = 1 /\ tx_buffered_data /\ ~last_was_bang
  /\ hist.flushes = Pairs(Consumed, FALSE)

C12_Witness ==
  /\ hist.payload = << CH.bang, CH.bang >> /\ wire_in = << >> /\ ~RI0
  /\ EscapedByte /\ SBUF0 = CH.bang
  /\ hist.flushes = 1 /\ rx_insert = rx_remove

\* the command codes of the escape scan (serial.c:205-446)
Recognized ==
  { CH.M, CH.H, CH.L, CH.P, CH.B, CH.C, CH.D, CH.E, CH.I, CH.F, CH.Y, CH.Z,
    CH.R, CH.V, CH.p, CH.o, CH.s, CH.x, CH.d, CH.c, CH.y, CH.g, CH.h, CH.w,
    CH.j } \cup (CH.zero .. CH.nine)

\* C13: a byte that is neither '!' nor '.' nor a command code, received
\* with the escape pending, puts exactly one 'E' on the outbound stream,
\* queues nothing to RX, dispatches nothing and clears the pending escape.
C13_UnknownCommand ==
  EscapedByte /\ SBUF0 \notin { CH.bang, CH.dot } \cup Recognized =>
    /\ tx_insert = (hist.before.tx_insert + 1) % TX_BUFF_MAX
    /\ tx_buf[hist.before.tx_insert] = CH.E
    /\ rx_insert = hist.before.rx_insert
    /\ Len(hist.calls) = hist.before.ncalls
    /\ ~last_was_bang

(***************************************************************************)
(* The interleaver (interleave.c)                                          *)
(***************************************************************************)
\* interleave.c:59-146: the stride of each length class, n = 0, 3, .., 255
steps ==
  << 0, 7, 9, 28, 13, 68, 17, 20, 57, 47,
     21, 23, 104, 25, 25, 233, 31, 110, 32, 60,
     31, 107, 281, 66, 33, 159, 146, 228, 188, 111,
     37, 354, 82, 118, 239, 41, 253, 186, 191, 196,
     143, 402, 95, 48, 45, 93, 47, 588, 400, 613,
     49, 99, 49, 52, 168, 255, 511, 157, 241, 294,
     299, 168, 905, 55, 447, 179, 306, 221, 176, 399,
     57, 293, 255, 410, 430, 620, 172, 178, 436, 305,
     61, 252, 1047, 435, 1040, 394 >>

\* interleave.c:150, 154-155: ((bit)*steps[n/3])%n, the product taken in
\* the target's 16-bit unsigned int
BitPos(n, bit) == ((bit * steps[(n \div 3) + 1]) % (U16_MAX + 1)) % n

\* interleave.c:150: in[pos>>3] >> (pos&7), non-zero or not
interleave_getbit(n, in, bit) ==
  IF in[BitPos(n, bit) \div 8] \div 2^(BitPos(n, bit) % 8) # 0 THEN 1 ELSE 0

\* interleave.c:154: b & (~1 << sh), stored back into a byte (the shift of
\* the negative int ~1 gives the two's complement result on the target)
AndShiftedMask(b, sh) == b - (b % 2^(sh + 1))

\* interleave.c:155: b | (1 << sh)
OrShiftedBit(b, sh) == IF (b \div 2^sh) % 2 = 1 THEN b ELSE b + 2^sh

\* interleave.c:152-156
interleave_setbit(n, in, bit, value) ==
  [in EXCEPT ![BitPos(n, bit) \div 8] =
     IF value = 0 THEN AndShiftedMask(@, BitPos(n, bit) % 8)
     ELSE OrShiftedBit(@, BitPos(n, bit) % 8)]

\* interleave.c:158-171
interleave_getbyte(n, in, index) ==
    interleave_getbit(n, in, index * 8 + 0)
  + interleave_getbit(n, in, index * 8 + 1) * 2
  + interleave_getbit(n, in, index * 8 + 2) * 4
  + interleave_getbit(n, in, index * 8 + 3) * 8
  + interleave_getbit(n, in, index * 8 + 4) * 16
  + interleave_getbit(n, in, index * 8 + 5) * 32
  + interleave_getbit(n, in, index * 8 + 6) * 64
  + interleave_getbit(n, in, index * 8 + 7) * 128

\* one line of interleave_setbyte (interleave.c:176-183):
\* interleave_setbit(n,in,(index<<3)+k,(value>>k)&1)
SetByteBit(n, in, index, value, k) ==
  interleave_setbit(n, in, index * 8 + k, (value \div 2^k) % 2)

\* interleave.c:173-184
interleave_setbyte(n, in, index, value) ==
  SetByteBit(n, SetByteBit(n, SetByteBit(n, SetByteBit(n,
    SetByteBit(n, SetByteBit(n, SetByteBit(n, SetByteBit(n,
      in, index, value, 0), index, value, 1), index, value, 2),
      index, value, 3), index, value, 4), index, value, 5),
      index, value, 6), index, value, 7)

(***************************************************************************)
(* Single bits: one interleave_setbit on a filled buffer, then             *)
(* interleave_getbit of the same bit                                       *)
(***************************************************************************)
MaxIlClass == 4

\* the length classes 3 .. 3 * MaxIlClass, and the longest one
IlClasses == { 3 * k : k \in 1 .. MaxIlClass } \cup { 255 }

\* prior content of every byte of the buffer
IlFills == { 0, 165, 255 }

InitIlBit ==
  /\ SerialFrom(Boot)
  /\ \E n \in IlClasses, f \in IlFills :
       il = [NoIl EXCEPT !.n = n, !.fill = f,
                         !.in = [x \in 0 .. n - 1 |-> f]]

IlSetBit ==
  /\ il.op = "none"
  /\ \E i \in 0 .. 8 * il.n - 1, v \in { 0, 1 } :
       il' = [il EXCEPT !.op = "setbit", !.bit = i, !.value = v,
                        !.in = interleave_setbit(il.n, il.in, i, v)]
  /\ UNCHANGED serial_vars

IlGetBit ==
  /\ il.op = "setbit"
  /\ il' = [il EXCEPT !.op = "getbit",
                      !.ret = interleave_getbit(il.n, il.in, il.bit)]
  /\ UNCHANGED serial_vars

NextIlBit == IlSetBit \/ IlGetBit

SpecIlBit == InitIlBit /\ [][NextIlBit]_vars

\* C14: interleave_getbit of a bit just written by interleave_setbit
\* returns the value written, whatever the buffer held before.
C14_BitRoundTrip == il.op = "getbit" => il.ret = il.value

\* the stride map of the length class n on bit indices
StrideMap(n, i) == (i * steps[(n \div 3) + 1]) % (8 * n)

\* C15: the stride map of the length class n an interleaver call works in
\* is a bijection on [0, 8n): its 8n values are pairwise distinct.
C15_StrideBijective ==
  il.op \in { "setbit", "getbit" } =>
    Cardinality({ StrideMap(il.n, i) : i \in 0 .. 8 * il.n - 1 }) = 8 * il.n

\* bit k of byte b
BitOfByte(b, k) == (b \div 2^k) % 2

\* byte b with bit k made v
WithBit(b, k, v) == b - BitOfByte(b, k) * 2^k + v * 2^k

\* C17: with p = (i * steps[n/3]) mod 8n, interleave_setbit changes bit
\* p mod 8 of byte p / 8 and nothing else, interleave_getbit returns that
\* bit, and every byte of the buffer is addressed by some bit index.
C17_BitAddressing ==
  /\ il.op = "setbit" =>
       il.in = [x \in 0 .. il.n - 1 |->
                  IF x = StrideMap(il.n, il.bit) \div 8
                  THEN WithBit(il.fill, StrideMap(il.n, il.bit) % 8, il.value)
                  ELSE il.fill]
  /\ il.op = "getbit" =>
       il.ret = BitOfByte(il.in[StrideMap(il.n, il.bit) \div 8],
                          StrideMap(il.n, il.bit) % 8)
  /\ il.op \in { "setbit", "getbit" } =>
       \A b \in 0 .. il.n - 1 :
         \E i \in 0 .. 8 * il.n - 1 : BitPos(il.n, i) \div 8 = b

(***************************************************************************)
(* Whole blocks: interleave_setbyte for every index in any order, then     *)
(* interleave_getbyte                                                      *)
(***************************************************************************)
MaxIlBlockClass == 2

\* blocks of n bytes
IlBlocks(n) ==
  { [j \in 0 .. n - 1 |-> (37 * j + 1) % 256],
    [j \in 0 .. n - 1 |-> 255 - j],
    [j \in 0 .. n - 1 |-> 0] }

InitIlBlock ==
  /\ SerialFrom(Boot)
  /\ \E k \in 1 .. MaxIlBlockClass, f \in { 0, 255 } :
       \E B \in IlBlocks(3 * k) :
         il = [NoIl EXCEPT !.n = 3 * k, !.fill = f, !.block = B,
                           !.in = [x \in 0 .. 3 * k - 1 |-> f]]

IlSetByte ==
  /\ \E j \in (0 .. il.n - 1) \ il.written :
       il' = [il EXCEPT !.op = "setbyte", !.index = j,
                        !.value = il.block[j],
                        !.written = @ \cup { j },
                        !.in = interleave_setbyte(il.n, il.in, j,
                                                  il.block[j])]
  /\ UNCHANGED serial_vars

IlGetByte ==
  /\ il.written = 0 .. il.n - 1
  /\ \E j \in 0 .. il.n - 1 :
       il' = [il EXCEPT !.op = "getbyte", !.index = j,
                        !.ret = interleave_getbyte(il.n, il.in, j)]
  /\ UNCHANGED serial_vars

NextIlBlock == IlSetByte \/ IlGetByte

SpecIlBlock == InitIlBlock /\ [][NextIlBlock]_vars

\* C16: once every byte B[j] of a block has been written with
\* interleave_setbyte, in whatever order, interleave_getbyte of index j
\* returns B[j].
C16_Lossless == il.op = "getbyte" => il.ret = il.block[il.index]

(***************************************************************************)
(* FIFO accounting: both FIFOs empty or nearly full, single-byte traffic   *)
(* in both directions, and mainline asking for the space and the backlog   *)
(***************************************************************************)
MaxAcctOps == 2
MaxAcctWire == 1

\* serial_write_space() called from mainline (serial.c:639-647)
MainWriteSpace ==
  /\ ~halted /\ pc = "idle"
  /\ Apply(Op(Return(MaskedRead(Enter(Cur, "serial_write_space"),
                                "tx_remove"),
                     "serial_write_space", serial_write_space(Cur))))

\* serial_read_available() called from mainline (serial.c:768-776)
MainReadAvailable ==
  /\ ~halted /\ pc = "idle"
  /\ Apply(Op(Return(MaskedRead(Enter(Cur, "serial_read_available"),
                                "rx_insert"),
                     "serial_read_available", serial_read_available(Cur))))

InitAcct ==
  \E tx_used \in { 0, TX_BUFF_MAX - 2, TX_BUFF_MAX - 1 },
     rx_used \in { 0, RX_BUFF_MAX - 2, RX_BUFF_MAX - 1 },
     at \in { << 0, 0 >>, << 100, 300 >> } :
    InitFrom([CtsAssert(RxQueued(TxLine(TxQueued(Boot, at[2], tx_used),
                                        FALSE),
                                 at[1], rx_used))
                EXCEPT !.wire_in = [k \in 1 .. MaxAcctWire |-> Pattern(k)]])

AcctWrite == hist.ops < MaxAcctOps /\ MainSerialWrite({ 200 })

AcctRead ==
  hist.ops < MaxAcctOps /\ BUF_NOT_EMPTY(rx_insert, rx_remove)
    /\ MainSerialRead

AcctWriteSpace == hist.ops < MaxAcctOps /\ MainWriteSpace

AcctReadAvailable == hist.ops < MaxAcctOps /\ MainReadAvailable

NextAcct ==
  \/ HostSends
  \/ SerialInterrupt({ NoEepromError })
  \/ TxSent
  \/ AcctWrite
  \/ AcctRead
  \/ AcctWriteSpace
  \/ AcctReadAvailable
  \/ MainStep

SpecAcct == InitAcct /\ [][NextAcct]_vars

\* serial.c:472: the value the receive interrupt compares with the low
\* watermark (it has been computed after the byte was queued)
RxWatermarkValue == BUF_FREE(rx_insert, rx_remove, RX_BUFF_MAX)

\* C18: for both FIFOs BUF_USED is (insert - remove) mod capacity; the
\* value serial_write_space returns, and the value the receive interrupt
\* compares with the watermark, is capacity - used - 1; serial_read_available
\* returns the number of bytes queued.
C18_Accounting ==
  /\ BUF_USED(rx_insert, rx_remove, RX_BUFF_MAX)
       = (rx_insert - rx_remove) % RX_BUFF_MAX
  /\ BUF_USED(tx_insert, tx_remove, TX_BUFF_MAX)
       = (tx_insert - tx_remove) % TX_BUFF_MAX
  /\ loc.op = "serial_write_space" =>
       loc.ret = TX_BUFF_MAX - Len(hist.pre.tx) - 1
  /\ loc.op = "serial_read_available" => loc.ret = Len(hist.pre.rx)
  /\ hist.who = "isr" /\ hist.before.ri0 =>
       RxWatermarkValue
         = RX_BUFF_MAX - BUF_USED(rx_insert, rx_remove, RX_BUFF_MAX) - 1

(***************************************************************************)
(* The overflow counters close to their maximum: both FIFOs full, the      *)
(* transmitter held off by RTS, the host sending unknown commands and      *)
(* data, mainline writing bytes and blocks                                 *)
(***************************************************************************)
MaxSatWire == 6
MaxSatCalls == 2

\* "!T" twice (each answered with 'E'), then plain data
SatWire(k) ==
  [i \in 1 .. k |->
     << CH.bang, CH.T, CH.bang, CH.T, CH.W, CH.W >>[((i - 1) % 6) + 1]]

InitSat ==
  InitFrom([CtsAssert(RxQueued(TxLine(TxQueued(Boot, 300, TX_BUFF_MAX - 1),
                                      TRUE),
                               100, RX_BUFF_MAX - 1))
              EXCEPT !.wire_in = SatWire(MaxSatWire),
                     !.errors = [serial_rx_overflow |-> U16_MAX - 1,
                                 serial_tx_overflow |-> U16_MAX - 2]])

SatWriteBuf == hist.ops < MaxSatCalls /\ MainSerialWriteBuf({ Block(2) })

SatWrite == hist.ops < MaxSatCalls /\ MainSerialWrite({ 200 })

NextSat ==
  \/ HostSends
  \/ SerialInterrupt({ NoEepromError })
  \/ SatWriteBuf
  \/ SatWrite
  \/ MainStep

SpecSat == InitSat /\ [][NextSat]_vars

\* C19: no step decreases an overflow counter, and a counter that has
\* reached 0xFFFF stays there.
C19_Saturating ==
  /\ errors.serial_rx_overflow >= hist.before.errors.serial_rx_overflow
  /\ errors.serial_tx_overflow >= hist.before.errors.serial_tx_overflow
  /\ hist.before.errors.serial_rx_overflow = U16_MAX
       => errors.serial_rx_overflow = U16_MAX
  /\ hist.before.errors.serial_tx_overflow = U16_MAX
       => errors.serial_tx_overflow = U16_MAX

\* C20: when serial_write_buf(buf, count) returns (no interrupt in
\* between) and k of the count bytes fitted, the TX overflow counter has
\* grown by count - k, saturating at 0xFFFF; when all fitted it is unchanged.
C20_TruncationCount ==
  (pc = "idle" /\ loc.op = "serial_write_buf" /\ ~hist.isr_during) =>
    errors.serial_tx_overflow
      = Min(U16_MAX,
            hist.pre.errors.serial_tx_overflow
              + (loc.arg_count - Min(loc.arg_count, TrueFree)))

(***************************************************************************)
(* Silence mode (serial.c:143-173, 188-197, 557; main.c:141-143)           *)
(***************************************************************************)
\* C21: no step taken while uboot_silence_mode is set appends a byte to
\* the TX FIFO: tx_insert is where it was, whether the step belongs to
\* serial_write, to serial_write_buf or to the handler's putchar_r /
\* _serial_write.
C21_SilenceSuppresses ==
  [][uboot_silence_mode => tx_insert' = tx_insert]_vars

\* ---- the uboot banner detector on alternating streams ----
MaxBannerWire == 83

\* the k-th byte of a stream alternating between the two banner bytes
Alt(first, k) ==
  IF k % 2 = 1 THEN first ELSE CH.banner1 + CH.banner2 - first

\* an alternating stream, with byte b in place of the one at position brk
BannerStream(first, brk, b) ==
  [k \in 1 .. MaxBannerWire |-> IF k = brk THEN b ELSE Alt(first, k)]

\* a detector as serial.c:129-130 initialises it, silence mode off; the
\* stream is unbroken (brk = 0), or broken once by a letter or by the
\* repetition of the byte before
InitBanner ==
  \E first \in { CH.banner1, CH.banner2 }, brk \in { 0, 2, 41, 80, 81 },
     rep \in BOOLEAN :
    InitFrom([Boot EXCEPT
                !.wire_in = BannerStream(first, brk,
                              IF rep THEN Alt(first, brk - 1) ELSE CH.A),
                !.hist.payload = BannerStream(first, brk,
                              IF rep THEN Alt(first, brk - 1) ELSE CH.A)])

NextBanner == HostSends \/ SerialInterrupt({ NoEepromError })

SpecBanner == InitBanner /\ [][NextBanner]_vars

\* b follows a as the next byte of the banner pattern
Alternates(a, b) ==
  { a, b } = { CH.banner1, CH.banner2 }

\* the length of the run of consecutive alternating banner bytes that
\* ends w
RECURSIVE TrailingRun(_)
TrailingRun(w) ==
  IF w = << >> \/ w[Len(w)] \notin { CH.banner1, CH.banner2 } THEN 0
  ELSE IF Len(w) = 1 \/ ~Alternates(w[Len(w) - 1], w[Len(w)]) THEN 1
  ELSE 1 + TrailingRun(SubSeq(w, 1, Len(w) - 1))

\* w holds a run of at least n consecutive alternating banner bytes
HasRun(w, n) == \E k \in 1 .. Len(w) : TrailingRun(SubSeq(w, 1, k)) >= n

\* the step just taken was the receive interrupt taking a byte
ByteTaken == hist.who = "isr" /\ hist.before.ri0

\* C22: from a reset detector, the interrupt that takes the 80th
\* consecutive alternating banner byte turns silence mode on with the
\* countdown at 2000 ticks; silence mode is off as long as no run of 80 has
\* been received; and a byte that does not continue the alternation leaves
\* the run counter at zero.
C22_SilenceThreshold ==
  ByteTaken =>
    /\ TrailingRun(Consumed) = UBOOT_BANNER_RUN =>
         uboot_silence_mode /\ uboot_silence_counter = UBOOT_SILENCE_TICKS
    /\ ~HasRun(Consumed, UBOOT_BANNER_RUN) => ~uboot_silence_mode
    /\ TrailingRun(Consumed) <= 1 => uboot_counter = 0

\* ---- the escape character and silence mode ----
MaxSilenceWire == 3

\* the escape character, a command letter, a letter that names no command
\* and a banner byte
SilenceBytes == { CH.bang, CH.M, CH.T, CH.banner1 }

\* silence mode running or not, the escape pending or not (main.c clears
\* last_was_bang at line 122 and sets silence mode at line 142, with the
\* serial interrupt enabled in between), AT mode active or not
InitSilence ==
  \E W \in SeqsUpTo(SilenceBytes, MaxSilenceWire),
     sil \in BOOLEAN, bang \in BOOLEAN, at \in BOOLEAN :
    InitFrom([(IF sil THEN Silenced(Boot) ELSE Boot)
                EXCEPT !.wire_in = W, !.hist.payload = W,
                       !.last_was_bang = bang, !.at_mode_active = at])

NextSilence ==
  \/ HostSends
  \/ SerialInterrupt({ NoEepromError })
  \/ TxDone
  \/ AtMode

SpecSilence == InitSilence /\ [][NextSilence]_vars

\* C23 as stated: after every receive interrupt that took a '!' with
\* silence mode active, in AT mode or not, silence mode is off and its
\* countdown is zero.
C23_BangCancelsAlways ==
  ByteTaken /\ SBUF0 = CH.bang /\ hist.before.silence =>
    ~uboot_silence_mode /\ uboot_silence_counter = 0

\* C23, amended: after every receive interrupt that took a '!' outside AT
\* mode with silence mode active, whether the escape was pending or not,
\* silence mode is off and its countdown is zero; a '!' taken in AT mode
\* leaves silence mode as it was.
C23_BangCancelsSilence ==
  ByteTaken /\ SBUF0 = CH.bang =>
    IF at_mode_active
    THEN uboot_silence_mode = hist.before.silence
    ELSE ~uboot_silence_mode /\ uboot_silence_counter = 0

C23_Witness ==
  /\ ByteTaken /\ SBUF0 = CH.bang /\ ~at_mode_active
  /\ hist.before.silence /\ hist.before.bang
  /\ ~uboot_silence_mode /\ uboot_silence_counter = 0

(***************************************************************************)
(* serial_init (serial.c:522-552).  The whole function runs with ES0 = 0,  *)
(* so it is one step.  SCON0 = 0x10 clears RI0 and TI0; the bit-clock      *)
(* registers set from `speed' are not part of the transport state.         *)
(***************************************************************************)
serial_init(s, speed) ==
  [s EXCEPT !.rx_insert = 0, !.rx_remove = 0,
            !.tx_insert = 0, !.tx_remove = 0,
            !.tx_idle = TRUE,
            !.RI0 = FALSE, !.TI0 = FALSE,
            !.SERIAL_CTS = FALSE,
            !.ES0 = TRUE]

MainSerialInit(speeds) ==
  /\ ~halted /\ pc = "idle"
  /\ \E speed \in speeds :
       Apply(Op(Return(serial_init(Enter(Cur, "serial_init"), speed),
                       "serial_init", TRUE)))

MaxInitOps == 3
MaxInitWire == 2

\* power-on state with the silence window running or over, hardware flow
\* control configured or not; the host sends escape characters and data
InitInit ==
  \E W \in SeqsUpTo({ CH.bang, CH.x }, MaxInitWire),
     sil \in BOOLEAN, rtscts \in BOOLEAN :
    InitFrom([(IF sil THEN Silenced(Boot) ELSE Boot)
                EXCEPT !.wire_in = W, !.hist.payload = W,
                       !.feature_rtscts = rtscts])

InitWrite == hist.ops < MaxInitOps /\ MainSerialWrite({ 200 })

InitSerialInit == hist.ops < MaxInitOps /\ MainSerialInit({ 57, 115 })

NextInit ==
  \/ HostSends
  \/ SerialInterrupt({ NoEepromError })
  \/ TxDone
  \/ InitWrite
  \/ MainStep
  \/ InitSerialInit

SpecInit == InitInit /\ [][NextInit]_vars

\* serial_init has just returned
InitReturned == hist.who = "main" /\ pc = "idle" /\ loc.op = "serial_init"

\* C24: when serial_init returns, both FIFOs are empty, the transmitter is
\* marked idle, the CTS gate is de-asserted, the RTS credit is zero, the
\* escape-pending flag and the flush request are clear, silence mode is off
\* and the serial interrupt is enabled.
C24_InitResetsAll ==
  InitReturned =>
    /\ rx_insert = rx_remove /\ tx_insert = tx_remove
    /\ tx_idle /\ ~SERIAL_CTS
    /\ rts_count = 0
    /\ ~last_was_bang /\ ~tx_buffered_data
    /\ ~uboot_silence_mode
    /\ ES0

(***************************************************************************)
(* serial_peek, serial_peek2, serial_peekx (serial.c:100-102, 687-721)     *)
(***************************************************************************)
BUF_PEEK(s) == s.rx_buf[s.rx_remove]
BUF_PEEK2(s) == s.rx_buf[BUF_NEXT_REMOVE(s.rx_remove, RX_BUFF_MAX)]
\* mutant: the index wraps one place early
BUF_PEEKX_early(s, offset) ==
  s.rx_buf[((s.rx_remove + offset) % 65536) % (RX_BUFF_MAX - 1)]

\* the sum is formed in 16 bits
BUF_PEEKX(s, offset) ==
  s.rx_buf[((s.rx_remove + offset) % 65536) % RX_BUFF_MAX]

serial_peek(s) ==
  ES0_RESTORE([ES0_DISABLE(s) EXCEPT !.ret = BUF_PEEK(s)], s.ES0)

serial_peek2(s) ==
  ES0_RESTORE([ES0_DISABLE(s) EXCEPT !.ret = BUF_PEEK2(s)], s.ES0)

serial_peekx(s, offset) ==
  ES0_RESTORE([ES0_DISABLE(s) EXCEPT !.ret = BUF_PEEKX(s, offset)], s.ES0)

\* the value a call leaves in the return register becomes its result
Returns(s, op) == Return(s, op, s.ret)

MainSerialPeek ==
  /\ ~halted /\ pc = "idle"
  /\ Apply(Op(Returns(serial_peek(Enter(Cur, "serial_peek")), "serial_peek")))

MainSerialPeek2 ==
  /\ ~halted /\ pc = "idle"
  /\ Apply(Op(Returns(serial_peek2(Enter(Cur, "serial_peek2")),
                      "serial_peek2")))

MainSerialPeekx(offsets) ==
  /\ ~halted /\ pc = "idle"
  /\ \E offset \in offsets :
       Apply(Op(Returns(serial_peekx(Enter([Cur EXCEPT !.loc.count = offset],
                                           "serial_peekx"), offset),
                        "serial_peekx")))

(***************************************************************************)
(* Every mainline entry point, called with the serial interrupt enabled or *)
(* already masked by the caller                                            *)
(***************************************************************************)
MaxMaskOps == 2

InitMask ==
  \E used \in { 0, 3 }, at \in { 0, RX_BUFF_MAX - 2 }, es0 \in BOOLEAN :
    InitFrom([RxQueued(Boot, at, used)
                EXCEPT !.ES0 = es0, !.wire_in = << CH.x >>])

MaskCall ==
  /\ hist.ops < MaxMaskOps
  /\ \/ MainSerialRead
     \/ MainSerialReadBuf({ 2 })
     \/ MainReadAvailable
     \/ MainSerialWrite({ 200 })
     \/ MainSerialWriteBuf({ Block(2) })
     \/ MainWriteSpace
     \/ MainSerialPeek
     \/ MainSerialPeek2
     \/ MainSerialPeekx({ 0, 2 })

MaskCheckRts == hist.ops < MaxMaskOps /\ MainCheckRts

NextMask ==
  \/ MaskCall
  \/ MaskCheckRts
  \/ MainStep
  \/ HostSends
  \/ SerialInterrupt({ NoEepromError })
  \/ TxDone

SpecMask == InitMask /\ [][NextMask]_vars

\* C25: no step of a mainline operation reads rx_insert or tx_remove with
\* the serial interrupt enabled, and when an operation has returned ES0 is
\* what it was on entry.
C25_MaskedReads ==
  hist.who = "main" =>
    /\ hist.before.unmasked = { }
    /\ pc = "idle" => ES0 = hist.pre.es0

(***************************************************************************)
(* Transmission paused by the peer's RTS line, and re-armed by             *)
(* serial_check_rts once the line has cleared for good.  The interrupt is  *)
(* taken when pending and the UART finishes the byte it is sending.        *)
(***************************************************************************)
MaxRearmQueue == 9

\* bytes wait in the TX FIFO, the line is blocked and the transmitter has
\* stopped; the credit is used up or was never needed; the host is silent
\* or sends an unknown command, which the handler answers with 'E'
InitRearm ==
  \E used \in { 1, MaxRearmQueue }, at \in { 0, TX_BUFF_MAX - 1 },
     credit \in { 0, 3 }, W \in { << >>, << CH.bang, CH.T >> } :
    InitFrom([TxLine(TxQueued(Boot, at, used), TRUE)
                EXCEPT !.rts_count = credit, !.wire_in = W])

\* the peer's "no room" signal clears, and stays clear
RearmPeerClears == SERIAL_RTS /\ PeerRts

NextRearm ==
  \/ RearmPeerClears
  \/ MainSerialCheckRts
  \/ MainStep
  \/ HostSends
  \/ SerialInterrupt({ NoEepromError })
  \/ TxDone

\* the serial interrupt can be taken; the step just taken is the handler
IsrPending == ~halted /\ ES0 /\ (RI0 \/ TI0)
IsrStep == hist'.who = "isr"

\* weak fairness of the UART and of the interrupt handler (the latter
\* written with its enabling condition spelled out)
SpecRearm ==
  /\ InitRearm /\ [][NextRearm]_vars
  /\ WF_vars(TxDone)
  /\ ([]<>(~IsrPending) \/ []<><<IsrStep>>_vars)

\* serial_check_rts, called with the line clear, bytes queued and the
\* transmitter stopped, has returned
Rearmed ==
  /\ hist.who = "main" /\ pc = "idle" /\ loc.op = "serial_check_rts"
  /\ hist.pre.tx # << >> /\ hist.pre.tx_idle /\ ~hist.pre.rts_blocked

\* a byte is queued and the transmitter counts as running, but no transmit
\* interrupt is pending and the UART is not sending
Stalled ==
  BUF_NOT_EMPTY(tx_insert, tx_remove) /\ ~tx_idle /\ ~TI0 /\ ~tx_busy

\* C26: serial_check_rts called after the line has cleared restarts a
\* stopped transmitter (tx_idle false, transmit interrupt pending); from
\* then on, the line staying clear, every byte accepted into the TX FIFO
\* is eventually written to the UART; and the transmitter is never stalled.
C26_Rearm ==
  /\ [](Rearmed => ~tx_idle /\ TI0)
  /\ (Rearmed ~> (hist.uart_out = hist.accepted))
  /\ []~Stalled

C26_Witness ==
  /\ Rearmed /\ ~tx_idle /\ TI0
  /\ Len(hist.pre.tx) = MaxRearmQueue /\ hist.uart_out = << >>

(***************************************************************************)
(* Mainline reads and peeks at the RX FIFO while the host may send one     *)
(* more byte; the queued bytes include 0x00 and lie across the wrap        *)
(***************************************************************************)
MaxPeekOps == 3
MaxPeekWire == 1

\* the k-th byte queued: 0x00, 0x55, 0xAA, ...
PeekData(k) == ((k - 1) * 85) % 256

\* the RX FIFO holding data from index `at'
RxHolds(s, at, data) ==
  [s EXCEPT !.rx_remove = at,
            !.rx_insert = (at + Len(data)) % RX_BUFF_MAX,
            !.rx_buf = [i \in 0 .. RX_BUFF_MAX - 1 |->
                          IF (i - at) % RX_BUFF_MAX < Len(data)
                          THEN data[((i - at) % RX_BUFF_MAX) + 1] ELSE 0]]

InitPeek ==
  \E used \in { 0, 1, 3 }, at \in { 0, RX_BUFF_MAX - 2, RX_BUFF_MAX - 1 },
     W \in SeqsUpTo({ CH.nul, 200 }, MaxPeekWire) :
    InitFrom([RxHolds(Boot, at, [k \in 1 .. used |-> PeekData(k)])
                EXCEPT !.wire_in = W])

PeekCall ==
  /\ hist.ops < MaxPeekOps
  /\ \/ MainSerialRead
     \/ MainSerialPeek
     \/ MainSerialPeek2
     \/ MainSerialPeekx({ 0, 1, 2 })

NextPeek ==
  \/ PeekCall
  \/ HostSends
  \/ SerialInterrupt({ NoEepromError })

SpecPeek == InitPeek /\ [][NextPeek]_vars

\* an operation of the given names has just returned
JustReturned(ops) == hist.who = "main" /\ pc = "idle" /\ loc.op \in ops

\* C27: serial_read returns the empty result (the value it returns for an
\* empty FIFO, '\0') exactly when the RX FIFO was empty at the call; from
\* a non-empty FIFO it removes and returns the oldest byte.
C27_ReadEmptiness ==
  JustReturned({ "serial_read" }) =>
    /\ loc.ret = CH.nul <=> hist.pre.rx = << >>
    /\ hist.pre.rx # << >> =>
         /\ loc.ret = Head(hist.pre.rx)
         /\ RxContents(Cur) = Tail(hist.pre.rx)

\* the offset a peek operation looks at
PeekOffset ==
  CASE loc.op = "serial_peek" -> 0
    [] loc.op = "serial_peek2" -> 1
    [] OTHER -> loc.count

PeekOps == { "serial_peek", "serial_peek2", "serial_peekx" }

\* C28: a peek changes neither the indices, nor the contents of the
\* buffers, nor the CTS gate, nor ES0; with more than k bytes available
\* the peek at offset k returns what the (k+1)-th of the following
\* serial_read calls would return; and in every state serial_peek and
\* serial_peek2 return what serial_peekx(0) and serial_peekx(1) return.
C28_Peek ==
  /\ JustReturned(PeekOps) =>
       /\ rx_insert = hist.before.rx_insert /\ rx_remove = hist.before.rx_remove
       /\ tx_insert = hist.before.tx_insert /\ tx_remove = hist.before.tx_remove
       /\ RxContents(Cur) = hist.pre.rx /\ TxContents(Cur) = hist.pre.tx
       /\ SERIAL_CTS = hist.before.cts /\ ES0 = hist.pre.es0
       /\ serial_read_available(Cur) > PeekOffset =>
            loc.ret = ReadN(Cur, PeekOffset + 1)[PeekOffset + 1]
  /\ serial_peek(Cur).ret = serial_peekx(Cur, 0).ret
  /\ serial_peek2(Cur).ret = serial_peekx(Cur, 1).ret

\* serial_peekx(2) has returned the third byte of a FIFO that wraps
C28_Witness ==
  /\ JustReturned({ "serial_peekx" }) /\ loc.count = 2
  /\ rx_remove = RX_BUFF_MAX - 1 /\ serial_read_available(Cur) = 3
  /\ loc.ret = rx_buf[1] /\ loc.ret = PeekData(3)

(***************************************************************************)
(* "!B": the drop to the boot loader (serial.c:217-240)                    *)
(***************************************************************************)
MaxBootReads == 1

BootSequence == << CH.bang, CH.C, CH.u, CH.p, CH.bang, CH.B >>

\* what the host sends: the sequence on its own or after other bytes, and
\* streams that reach "!B" with something else in the RX FIFO
BootStreams ==
  { pre \o BootSequence :
      pre \in { << >>, << CH.bang >>, << CH.x >>, << CH.bang, CH.bang >>,
                << CH.u >> } }
  \cup { << CH.u, CH.p, CH.bang, CH.B >>, << CH.p, CH.bang, CH.B >>,
         << CH.u, CH.bang, CH.B >>, << CH.p, CH.u, CH.bang, CH.B >>,
         << CH.u, CH.p, CH.x, CH.bang, CH.B >>, << CH.bang, CH.B >>,
         << CH.u, CH.p, CH.B >>, << CH.bang, CH.C, CH.u, CH.p, CH.B >> }

\* the escape is not pending (main.c:122); the RX FIFO is empty or holds a
\* byte, at the start or at the end of the array
InitBoot ==
  \E W \in BootStreams, data \in { << >>, << CH.u >>, << CH.x >> },
     at \in { 0, RX_BUFF_MAX - 1 } :
    InitFrom([RxHolds(Boot, at, data) EXCEPT !.wire_in = W,
                                             !.hist.payload = W])

BootRead ==
  hist.ops < MaxBootReads /\ BUF_NOT_EMPTY(rx_insert, rx_remove)
    /\ MainSerialRead

NextBoot ==
  \/ HostSends
  \/ SerialInterrupt({ NoEepromError })
  \/ BootRead

SpecBoot == InitBoot /\ [][NextBoot]_vars

\* the RX FIFO as the step just taken found it (the step stored nothing)
RxBefore ==
  Contents(rx_buf, hist.before.rx_insert, hist.before.rx_remove, RX_BUFF_MAX)

\* the handler has erased the flash signature and reset the device
Reprogram ==
  /\ halted
  /\ Len(hist.calls) >= 2
  /\ SubSeq(hist.calls, Len(hist.calls) - 1, Len(hist.calls))
       = << "flash_erase_signature", "reset" >>

\* 'B' taken with the escape pending: reprogram mode exactly when the RX
\* FIFO held 'u', 'p' and nothing else; otherwise nothing is called and the
\* escape is no longer pending
BootGuard ==
  ByteTaken /\ SBUF0 = CH.B /\ hist.before.bang =>
    IF RxBefore = << CH.u, CH.p >>
    THEN Reprogram
    ELSE ~halted /\ Len(hist.calls) = hist.before.ncalls /\ ~last_was_bang

\* w ends with s
EndsWith(w, s) ==
  Len(w) >= Len(s) /\ SubSeq(w, Len(w) - Len(s) + 1, Len(w)) = s

\* the number of escape characters that end w
RECURSIVE TrailingBangs(_)
TrailingBangs(w) ==
  IF w = << >> \/ w[Len(w)] # CH.bang THEN 0
  ELSE 1 + TrailingBangs(SubSeq(w, 1, Len(w) - 1))

\* the bytes received before the last six
BeforeSequence == SubSeq(Consumed, 1, Len(Consumed) - Len(BootSequence))

\* C29 as stated: the guard on 'B', and reprogram mode whenever "!Cup!B"
\* has been received with no mainline read in between.
C29_SequenceAlways ==
  /\ BootGuard
  /\ EndsWith(Consumed, BootSequence) /\ hist.ops = 0 => Reprogram

\* C29, amended: the guard on 'B', and reprogram mode whenever "!Cup!B"
\* has been received with no mainline read in between, the escape not
\* being pending when its first byte arrives (an even number of escape
\* characters ends what was received before).
C29_BootGuard ==
  /\ BootGuard
  /\ EndsWith(Consumed, BootSequence) /\ hist.ops = 0
       /\ TrailingBangs(BeforeSequence) % 2 = 0 => Reprogram

C29_Witness ==
  /\ Consumed = << CH.x >> \o BootSequence /\ hist.ops = 0
  /\ ByteTaken /\ SBUF0 = CH.B /\ hist.before.bang
  /\ RxBefore = << CH.u, CH.p >> /\ Reprogram

(***************************************************************************)
(* The pending escape, one byte at a time (serial.c:175-470)               *)
(***************************************************************************)
MaxScanWire == 1

\* every byte the handler tells apart: the escape, the dot, each command
\* code, letters and other bytes that name no command
ScanBytes ==
  Recognized \cup { CH.bang, CH.dot, CH.T, CH.a, CH.banner1, CH.nul }

\* the escape pending or not, AT mode active or not, the RX FIFO empty or
\* holding the bytes "!C" and "!B" look for; the EEPROM driver may fail
ScanEepromResults ==
  { NoEepromError, [write_err |-> TRUE, read_err |-> TRUE] }

InitScan ==
  \E W \in SeqsUpTo(ScanBytes, MaxScanWire), bang \in BOOLEAN,
     at \in BOOLEAN, data \in { << >>, << CH.u, CH.p >> } :
    InitFrom([RxHolds(Boot, 0, data)
                EXCEPT !.wire_in = W, !.hist.payload = W,
                       !.last_was_bang = bang, !.at_mode_active = at])

NextScan ==
  \/ HostSends
  \/ SerialInterrupt(ScanEepromResults)
  \/ TxDone

SpecScan == InitScan /\ [][NextScan]_vars

\* the receive interrupt has just stored the byte it took at the head of
\* the RX FIFO
ByteQueued ==
  /\ rx_insert = (hist.before.rx_insert + 1) % RX_BUFF_MAX
  /\ rx_buf[hist.before.rx_insert] = SBUF0

\* C30: after every receive interrupt that took a byte c and returned:
\* outside AT mode the escape is pending exactly if c is '!' and the escape
\* was not pending before, and a byte other than '!' taken with the escape
\* pending clears it and is not queued to RX; in AT mode the pending escape
\* and the RX FIFO are as they were.
C30_EscapePending ==
  ByteTaken /\ ~halted =>
    IF at_mode_active
    THEN /\ last_was_bang = hist.before.bang
         /\ rx_insert = hist.before.rx_insert
         /\ rx_remove = hist.before.rx_remove
    ELSE /\ last_was_bang <=> (SBUF0 = CH.bang /\ ~hist.before.bang)
         /\ hist.before.bang /\ SBUF0 # CH.bang =>
              ~last_was_bang /\ ~ByteQueued

\* "!." has been taken outside AT mode: the escape is no longer pending and
\* the byte queued is '!', not the dot
C30_Witness ==
  /\ ByteTaken /\ ~halted /\ ~at_mode_active
  /\ hist.before.bang /\ SBUF0 = CH.dot
  /\ ~last_was_bang /\ ~ByteQueued
  /\ rx_buf[hist.before.rx_insert] = CH.bang

(***************************************************************************)
(* Mainline reads interleaved with a receive interrupt that executes the   *)
(* commands which consume the RX FIFO (serial.c:217-246, 280-296, 300-348) *)
(***************************************************************************)
MaxStaleOps == 2
MaxStaleBlock == 2

\* data bytes, all different, none of them a command code or zero (the
\* content of the RX array at boot)
StaleData == << 161, 162, 163 >>

\* the host queues two data bytes and then sends a command that consumes
\* the RX FIFO, with or without a third data byte after it
StaleCommands == { CH.C, CH.B, CH.g, CH.w, CH.j }

StaleWires ==
  { SubSeq(StaleData, 1, 2) \o << CH.bang, c >> \o tail :
      c \in StaleCommands, tail \in { << >>, << StaleData[3] >> } }

InitStale ==
  \E W \in StaleWires, at \in { 0, RX_BUFF_MAX - 1 } :
    InitFrom([StartAt(Boot, at, 0) EXCEPT !.wire_in = W, !.hist.payload = W])

StaleReadBuf ==
  hist.ops < MaxStaleOps /\ MainSerialReadBuf(1 .. MaxStaleBlock)

StaleRead ==
  /\ hist.ops < MaxStaleOps /\ BUF_NOT_EMPTY(rx_insert, rx_remove)
  /\ MainSerialRead

NextStale ==
  \/ HostSends
  \/ SerialInterrupt({ NoEepromError })
  \/ StaleReadBuf
  \/ StaleRead
  \/ MainStep

SpecStale == InitStale /\ [][NextStale]_vars

\* a is b with some elements left out
RECURSIVE IsSubsequence(_, _)
IsSubsequence(a, b) ==
  IF a = << >> THEN TRUE
  ELSE IF b = << >> THEN FALSE
  ELSE IF Head(a) = Head(b) THEN IsSubsequence(Tail(a), Tail(b))
  ELSE IsSubsequence(a, Tail(b))

\* the bytes the receive interrupt has taken so far
StaleTaken ==
  SubSeq(hist.payload, 1,
         Len(hist.payload) - Len(wire_in) - (IF RI0 THEN 1 ELSE 0))

\* the data bytes among them: what the interrupt has queued, in order
StaleQueued == SelectSeq(StaleTaken, LAMBDA b : b >= 161)

\* C31: whatever the interleaving of the receive interrupt (commands that
\* consume the RX FIFO included) with serial_read and the steps of
\* serial_read_buf, the bytes delivered to mainline are bytes the interrupt
\* queued, each at most once and in queue order, and between mainline
\* calls serial_read_available() is at most the number of bytes queued and
\* not yet delivered (the bytes cleared by a command lower the claim's
\* bound further).
C31_NoStaleData ==
  /\ IsSubsequence(hist.read_out, StaleQueued)
  /\ pc = "idle" =>
       serial_read_available(Cur) <= Len(StaleQueued) - Len(hist.read_out)

(***************************************************************************)
(* The CTS gate when the interrupt empties the RX FIFO (serial.c:241-246,  *)
(* 471-475, 676-680, 758-764)                                              *)
(***************************************************************************)
MaxGateTail == 1

\* bytes queued at the start: two more data bytes take the free space below
\* the low watermark
GateFill == RX_BUFF_MAX - SERIAL_CTS_THRESHOLD_LOW - 1

\* two data bytes, then nothing, or "!C" and up to MaxGateTail data bytes
GateWires ==
  { << Pattern(1), Pattern(2) >> \o cmd \o [k \in 1 .. n |-> Pattern(2 + k)] :
      cmd \in { << >>, << CH.bang, CH.C >> }, n \in 0 .. MaxGateTail }

InitGate ==
  \E W \in GateWires, at \in { 0, 100 } :
    InitFrom([RxQueued(Boot, at, GateFill)
                EXCEPT !.wire_in = W, !.hist.payload = W])

\* mainline reads whenever bytes are available, and only then: a block of
\* 16 when there are that many, single bytes otherwise
GateRead ==
  /\ pc = "idle" /\ serial_read_available(Cur) \in 1 .. 15
  /\ MainSerialRead

GateReadBuf ==
  /\ pc = "idle" /\ serial_read_available(Cur) >= 16
  /\ MainSerialReadBuf({ 16 })

NextGate ==
  \/ HostSends
  \/ SerialInterrupt({ NoEepromError })
  \/ GateRead
  \/ GateReadBuf
  \/ MainStep

SpecGate == InitGate /\ [][NextGate]_vars

\* nothing is left to happen: the RX FIFO is empty, mainline is between
\* calls and the host has sent all it had
GateQuiescent ==
  /\ pc = "idle" /\ BUF_EMPTY(rx_insert, rx_remove)
  /\ wire_in = << >> /\ ~RI0

\* C32: the CTS gate does not stay asserted: with mainline reading
\* whenever serial_read_available() > 0 and only then, there is no
\* reachable state in which SERIAL_CTS is asserted while the RX FIFO is
\* empty and no further mainline read will occur.
C32_GateReleased == GateQuiescent => ~SERIAL_CTS

(***************************************************************************)
(* interleave_setbit: what else it changes (interleave.c:152-156)          *)
(***************************************************************************)
\* C33: interleave_setbit(n, buf, i, v) leaves every bit of the buffer
\* other than the one it addresses as it was, for v = 0 and for v = 1.
C33_SetBitFrame ==
  il.op = "setbit" =>
    \A x \in 0 .. il.n - 1, k \in 0 .. 7 :
      (x # BitPos(il.n, il.bit) \div 8 \/ k # BitPos(il.n, il.bit) % 8) =>
        BitOfByte(il.in[x], k) = BitOfByte(il.fill, k)

(***************************************************************************)
(* The width of the permutation index (interleave.c:59, 150, 154-155)      *)
(***************************************************************************)
\* C34: for every length class n and bit index i below 8n an interleaver
\* call works on, the product i * steps[n/3] fits the target's 16-bit
\* unsigned int, so that the position computed from it is the mathematical
\* product reduced by the same modulus.
C34_NoOverflow ==
  il.op \in { "setbit", "getbit" } =>
    /\ il.bit * steps[(il.n \div 3) + 1] <= U16_MAX
    /\ BitPos(il.n, il.bit) = (il.bit * steps[(il.n \div 3) + 1]) % il.n

(***************************************************************************)
(* "!0" (serial.c:247-249, 419-422)                                        *)
(***************************************************************************)
\* C35: after the receive interrupt has taken '0' outside AT mode with the
\* escape pending, both RX indices are zero and the RX FIFO is empty,
\* whatever it held before.
C35_ZeroEmpties ==
  ByteTaken /\ ~at_mode_active /\ hist.before.bang /\ SBUF0 = CH.zero =>
    rx_insert = 0 /\ rx_remove = 0

(***************************************************************************)
(* puts_r (serial.c:801-805): while (s++) putchar_r of the byte at s, then  *)
(* putchar_r of a newline.                                                 *)
(* The pointer is a 16-bit address.  loc.arg_buf holds the characters of   *)
(* the string, loc.arg_count its address, loc.count the pointer s,         *)
(* loc.out the characters handed to putchar_r and loc.space the number of  *)
(* reads made after the terminating NUL (history).                         *)
(***************************************************************************)
MaxPutsPast == 3

\* the byte at address a: the string, its terminating NUL, or whatever
\* else the memory holds there
PutsMem(s, a, other) ==
  IF a >= s.loc.arg_count /\ a < s.loc.arg_count + Len(s.loc.arg_buf)
  THEN s.loc.arg_buf[a - s.loc.arg_count + 1]
  ELSE IF a = s.loc.arg_count + Len(s.loc.arg_buf) THEN CH.nul
  ELSE other

\* the read at address a lies after the terminating NUL of the string
PutsPast(s, a) ==
  a < s.loc.arg_count \/ a > s.loc.arg_count + Len(s.loc.arg_buf)

\* entry of puts_r(str), str stored at address base
puts_r_Enter(s, str, base) ==
  [Enter([s EXCEPT !.loc.arg_buf = str, !.loc.arg_count = base,
                   !.loc.count = base, !.loc.out = << >>,
                   !.loc.space = 0], "puts_r")
     EXCEPT !.pc = "pr_test"]

\* serial.c:803: while(s++): the pointer is tested, then advanced
puts_r_Test(s) ==
  [s EXCEPT !.loc.count = (@ + 1) % (U16_MAX + 1),
            !.pc = IF s.loc.count # 0 THEN "pr_put" ELSE "pr_newline"]

\* serial.c:803: putchar_r of the byte the advanced pointer points to
puts_r_Put(s, other) ==
  [putchar_r(s, PutsMem(s, s.loc.count, other))
     EXCEPT !.loc.out = Append(@, PutsMem(s, s.loc.count, other)),
            !.loc.space = IF PutsPast(s, s.loc.count) THEN @ + 1 ELSE @,
            !.pc = "pr_test"]

\* serial.c:804: putchar_r('\n'), and the return
puts_r_Newline(s) ==
  Return([putchar_r(s, CH.lf) EXCEPT !.loc.out = Append(@, CH.lf)],
         "puts_r", TRUE)

\* "", "A", "AB" and the string panic() prints (main.c:160)
PutsStrings ==
  { << >>, << CH.A >>, << CH.A, CH.B >>,
    << CH.lf, 42, 42, CH.P, CH.A, 78, CH.I, CH.C, 42, 42 >> }

\* bytes found in memory outside the string
PutsOther == { CH.nul, CH.x }

MainPutsR ==
  /\ ~halted /\ pc = "idle" /\ hist.ops = 0
  /\ \E str \in PutsStrings :
       \E base \in { 256, U16_MAX - Len(str) } :
         Apply(Op(puts_r_Enter(Cur, str, base)))

\* puts_r continues, followed for MaxPutsPast reads after the terminator
PutsStep ==
  /\ ~halted /\ pc \in { "pr_test", "pr_put", "pr_newline" }
  /\ loc.space <= MaxPutsPast
  /\ \E other \in (IF pc = "pr_put" /\ PutsPast(Cur, loc.count)
                   THEN PutsOther ELSE { CH.nul }) :
       Apply(By(CASE pc = "pr_test" -> puts_r_Test(Cur)
                  [] pc = "pr_put" -> puts_r_Put(Cur, other)
                  [] pc = "pr_newline" -> puts_r_Newline(Cur),
                "main"))

InitPuts == InitFrom(Boot)

NextPuts ==
  \/ MainPutsR
  \/ PutsStep
  \/ SerialInterrupt({ NoEepromError })
  \/ TxDone

SpecPuts == InitPuts /\ [][NextPuts]_vars

\* C36: puts_r(s) hands putchar_r the characters of s in order, starting
\* with the first, then a newline, and returns; it reads nothing after the
\* terminating NUL.
C36_PutsR ==
  loc.op = "puts_r" =>
    /\ IsPrefix(loc.out, Append(loc.arg_buf, CH.lf))
    /\ pc = "idle" => loc.out = Append(loc.arg_buf, CH.lf)
    /\ loc.space = 0

====
